---- MODULE Spec2Model ----
(***************************************************************************)
(* Model of the k6 scenario scripts of K6-typescript-demo-project: the     *)
(* shared API helpers (tests/utils.ts), the per-script scenario            *)
(* dispatchers and the scenario functions they call.                       *)
(*                                                                         *)
(* A random draw u = Math.random() is modelled as an integer d in          *)
(* 0..DrawScale-1 standing for u = d / DrawScale; a comparison u < p/q is  *)
(* d * q < p * DrawScale.  A response is what the HTTP layer hands back:   *)
(* a status (0 = no response), a body text and a duration.                 *)
(***************************************************************************)
EXTENDS Integers, Sequences, FiniteSets, TLC

\* ------------------------------------------------------------------ bounds
\* resolution of a random draw
DrawScale == 10
\* step of the clock, in milliseconds
TickMs == 150000
\* number of clock steps a run lasts
MaxTicks == 16
\* iterations a virtual user runs
MaxIterations == 2

VARIABLES
    script,          \* the script the runtime is executing
    pc,              \* position of the virtual user inside its iteration
    clock,           \* Date.now(), in milliseconds
    data,            \* the value returned by setup() and handed to every iteration
    iterationCount,  \* soak-test module-level counter
    local,           \* local variables of the running scenario function
    sent,            \* requests issued so far in the current iteration, with the status received
    recorded,        \* checks recorded so far in the current iteration
    probe            \* a helper call on one response: its input and its result

vars == <<script, pc, clock, data, iterationCount, local, sent, recorded, probe>>

\* ------------------------------------------------------------ random draws
Draws == 0 .. (DrawScale - 1)

\* Math.random() < p/q
RandLess(d, p, q) == d * q < p * DrawScale

\* Math.floor(Math.random() * n)
RandFloor(d, n) == (d * n) \div DrawScale

\* ------------------------------------------------------------ JSON values
Undefined == [kind |-> "undefined"]
Null == [kind |-> "null"]
Str(s) == [kind |-> "string", str |-> s]
Num(n) == [kind |-> "number", num |-> n]
Arr(n) == [kind |-> "array", len |-> n]
Obj(f) == [kind |-> "object", props |-> f]

\* JavaScript ToBoolean
Truthy(v) ==
    CASE v.kind \in {"undefined", "null"} -> FALSE
      [] v.kind = "string" -> v.str # ""
      [] v.kind = "number" -> v.num # 0
      [] OTHER -> TRUE

\* reading a property of null or undefined raises a TypeError
CanRead(v) == v.kind \notin {"undefined", "null"}

\* v.k for a value that can be read
Get(v, k) ==
    IF v.kind = "object" /\ k \in DOMAIN v.props THEN v.props[k]
    ELSE IF v.kind = "array" /\ k = "length" THEN Num(v.len)
    ELSE Undefined

IsArray(v) == v.kind = "array"

\* the response body texts the model tells apart; none stands for a response
\* that carried no body (r.body is null)
Body ==
    [none |-> "<no body>",
     empty |-> "",
     html |-> "<html>502 Bad Gateway</html>",
     jsonNull |-> "null",
     jsonNumber |-> "0",
     emptyObject |-> "{}",
     errors |-> "{\"errors\":{\"body\":[\"invalid\"]}}",
     userNull |-> "{\"user\":null}",
     userNoToken |-> "{\"user\":{\"email\":\"u1@example.com\"}}",
     userEmptyToken |-> "{\"user\":{\"email\":\"u1@example.com\",\"token\":\"\"}}",
     userToken |->
        "{\"user\":{\"email\":\"u1@example.com\",\"token\":\"jwt1\",\"username\":\"u1\"}}",
     articleNoSlug |-> "{\"article\":{\"title\":\"T\"}}",
     articleSlug |-> "{\"article\":{\"slug\":\"t-1\",\"title\":\"T\"}}",
     articles |-> "{\"articles\":[{},{}],\"articlesCount\":2}",
     articlesNotArray |-> "{\"articles\":\"none\"}",
     tags |-> "{\"tags\":[\"k6\"]}",
     tagsNotArray |-> "{\"tags\":\"k6\"}"]

\* generateRandomUserData(): the credential is named by the timestamp and the
\* random number it is built from
generateRandomUserData(now, d) == [timestamp |-> now, randomNum |-> RandFloor(d, 1000)]
NoUserData == [timestamp |-> 0, randomNum |-> 0]

Username(userData) ==
    "testuser_" \o ToString(userData.timestamp) \o "_" \o ToString(userData.randomNum)
Email(userData) == Username(userData) \o "@example.com"

\* the draws taken for the random suffix of a credential
SuffixDraws == {0, DrawScale - 1}
\* the credentials a run can generate at the time the model visits
Credentials == {generateRandomUserData(0, d) : d \in SuffixDraws}

\* the body the API answers a registration or login of userData with
BodyUserOf(userData) ==
    "{\"user\":{\"email\":\"" \o Email(userData) \o "\",\"token\":\"jwt1\",\"username\":\""
        \o Username(userData) \o "\"}}"

\* JSON.parse(r.body as string): ok = FALSE is a SyntaxError
JSONParse(text) ==
    CASE text = Body.none -> [ok |-> TRUE, val |-> Null]
      [] text = Body.jsonNull -> [ok |-> TRUE, val |-> Null]
      [] text = Body.jsonNumber -> [ok |-> TRUE, val |-> Num(0)]
      [] text = Body.emptyObject -> [ok |-> TRUE, val |-> Obj(<<>>)]
      [] text = Body.errors ->
            [ok |-> TRUE, val |-> Obj([errors |-> Obj([body |-> Arr(1)])])]
      [] text = Body.userNull -> [ok |-> TRUE, val |-> Obj([user |-> Null])]
      [] text = Body.userNoToken ->
            [ok |-> TRUE, val |-> Obj([user |-> Obj([email |-> Str("u1@example.com")])])]
      [] text = Body.userEmptyToken ->
            [ok |-> TRUE,
             val |-> Obj([user |-> Obj([email |-> Str("u1@example.com"), token |-> Str("")])])]
      [] text = Body.userToken ->
            [ok |-> TRUE,
             val |-> Obj([user |-> Obj([email |-> Str("u1@example.com"),
                                        token |-> Str("jwt1"),
                                        username |-> Str("u1")])])]
      [] text = Body.articleNoSlug ->
            [ok |-> TRUE, val |-> Obj([article |-> Obj([title |-> Str("T")])])]
      [] text = Body.articleSlug ->
            [ok |-> TRUE,
             val |-> Obj([article |-> Obj([slug |-> Str("t-1"), title |-> Str("T")])])]
      [] text = Body.articles ->
            [ok |-> TRUE, val |-> Obj([articles |-> Arr(2), articlesCount |-> Num(2)])]
      [] text = Body.articlesNotArray ->
            [ok |-> TRUE, val |-> Obj([articles |-> Str("none")])]
      [] text = Body.tags -> [ok |-> TRUE, val |-> Obj([tags |-> Arr(1)])]
      [] text = Body.tagsNotArray -> [ok |-> TRUE, val |-> Obj([tags |-> Str("k6")])]
      [] \E c \in Credentials : text = BodyUserOf(c) ->
            LET c == CHOOSE x \in Credentials : text = BodyUserOf(x) IN
            [ok |-> TRUE,
             val |-> Obj([user |-> Obj([email |-> Str(Email(c)),
                                        token |-> Str("jwt1"),
                                        username |-> Str(Username(c))])])]
      [] OTHER -> [ok |-> FALSE, val |-> Undefined]

\* the body parses as JSON to an object whose <outer> is an object holding a
\* non-empty string <inner>
BodyHolds(text, outer, inner) ==
    LET p == JSONParse(text) IN
    /\ p.ok
    /\ p.val.kind = "object"
    /\ outer \in DOMAIN p.val.props
    /\ p.val.props[outer].kind = "object"
    /\ inner \in DOMAIN p.val.props[outer].props
    /\ p.val.props[outer].props[inner].kind = "string"
    /\ p.val.props[outer].props[inner].str # ""

\* ---------------------------------------------------------------- responses
StatusNone == 0
Statuses == {StatusNone, 200, 201, 422, 429, 500}
Durations == {150, 6000}
Responses == [status : Statuses, body : {Body[k] : k \in DOMAIN Body}, duration : Durations]

\* the responses an endpoint answers with, one body per outcome of the checks
\* that read it
Replies(bodies) == [status : Statuses, body : bodies, duration : {150}]
ArticleListReplies ==
    Replies({Body.none, Body.html, Body.emptyObject, Body.articles, Body.articlesNotArray})
TagListReplies == Replies({Body.none, Body.html, Body.tags, Body.tagsNotArray})
ArticleReplies == Replies({Body.none, Body.html, Body.errors, Body.articleNoSlug, Body.articleSlug})
UserReplies(userData) ==
    Replies({Body.none, Body.html, Body.errors, Body.userNull, Body.userNoToken,
             Body.userEmptyToken, Body.userToken, BodyUserOf(userData)})

\* responses whose body no check of the caller reads
StatusOnly == Replies({Body.none})

\* what a recorded check keeps of the response it looked at
Seen(response) == [status |-> response.status, duration |-> response.duration]

\* ------------------------------------------------------------------- checks
\* A check predicate evaluates to "true", "false" or "throw".
Bool(b) == IF b THEN "true" ELSE "false"

\* try { <expr> } catch { return false }
TryCatchRethrow(outcome) == outcome
TryCatch(outcome) == IF outcome = "throw" THEN "false" ELSE outcome

\* body.<outer> && body.<outer>.<inner> on the parsed body of r
HasNested(r, outer, inner) ==
    LET p == JSONParse(r.body) IN
    IF ~p.ok \/ ~CanRead(p.val) THEN "throw"
    ELSE Bool(Truthy(Get(p.val, outer)) /\ Truthy(Get(Get(p.val, outer), inner)))

\* body.<field> && Array.isArray(body.<field>) on the parsed body of r
HasArray(r, field) ==
    LET p == JSONParse(r.body) IN
    IF ~p.ok \/ ~CanRead(p.val) THEN "throw"
    ELSE Bool(Truthy(Get(p.val, field)) /\ IsArray(Get(p.val, field)))

Named(name, outcome) == [name |-> name, outcome |-> outcome]

RECURSIVE FirstThrow(_, _)
FirstThrow(preds, i) ==
    IF i > Len(preds) THEN 0
    ELSE IF preds[i].outcome = "throw" THEN i
    ELSE FirstThrow(preds, i + 1)

\* check(r, {name: predicate, ...}): every predicate is evaluated in order and
\* recorded under its name; the result is true iff all of them held.  A
\* predicate that raises ends the call with that exception.
Check(preds) ==
    LET t == FirstThrow(preds, 1)
        n == IF t = 0 THEN Len(preds) ELSE t - 1
    IN [threw |-> t # 0,
        pass |-> t = 0 /\ \A i \in 1 .. Len(preds) : preds[i].outcome = "true",
        recorded |-> [i \in 1 .. n |-> [name |-> preds[i].name,
                                       pass |-> preds[i].outcome = "true"]]]

\* ------------------------------------------------------------ tests/utils.ts
ApiResult(response, c) ==
    [threw |-> c.threw, status |-> response.status, body |-> response.body,
     checks |-> c.recorded]

registerUser(response) ==
    ApiResult(response,
        Check(<<Named("User registration successful", Bool(response.status = 200)),
                Named("Response contains user data",
                      TryCatch(HasNested(response, "user", "token")))>>))

loginUserNoStatus(response) ==
    LET c == Check(<<Named("Login successful", Bool(response.status = 200)),
                     Named("Response contains token",
                           TryCatch(HasNested(response, "user", "token")))>>)
        p == JSONParse(response.body)
    IN IF ~c.threw /\ c.recorded[2].pass
       THEN [threw |-> ~p.ok, value |-> p.val, checks |-> c.recorded]
       ELSE [threw |-> c.threw, value |-> Null, checks |-> c.recorded]

loginUser(response) ==
    LET c == Check(<<Named("Login successful", Bool(response.status = 200)),
                     Named("Response contains token",
                           TryCatch(HasNested(response, "user", "token")))>>)
        p == JSONParse(response.body)
    IN IF c.pass /\ response.status = 200
       THEN [threw |-> ~p.ok, value |-> p.val, checks |-> c.recorded]
       ELSE [threw |-> c.threw, value |-> Null, checks |-> c.recorded]

fetchArticles(response) ==
    ApiResult(response,
        Check(<<Named("Articles fetched successfully", Bool(response.status = 200)),
                Named("Response contains articles",
                      TryCatch(HasArray(response, "articles")))>>))

createArticle(response) ==
    ApiResult(response,
        Check(<<Named("Article created successfully", Bool(response.status = 200)),
                Named("Response contains article",
                      TryCatch(HasNested(response, "article", "slug")))>>))

fetchTags(response) ==
    ApiResult(response,
        Check(<<Named("Tags fetched successfully", Bool(response.status = 200)),
                Named("Response contains tags",
                      TryCatch(HasArray(response, "tags")))>>))

\* ------------------------------------------------------------------ config.ts
config ==
    [baseUrl |-> "https://demo.realworld.show",
     endpoints |-> [articles |-> "/api/articles",
                    tags |-> "/api/tags",
                    login |-> "/api/users/login",
                    register |-> "/api/users",
                    profile |-> "/api/user"]]
favoriteArticle(slug) == "/api/articles/" \o slug \o "/favorite"

\* the Authorization header value built by createAuthHeader
createAuthHeader(token) == "Token " \o token

\* ------------------------------------------------------------------ requests
\* query is <<>> when the URL has no query string, else <<limit, offset>>;
\* auth is "" when the request carries no Authorization header
Request(method, path, query, auth) ==
    [method |-> method, url |-> config.baseUrl \o path, query |-> query, auth |-> auth]

RegisterRequest == Request("POST", config.endpoints.register, <<>>, "")
LoginRequest == Request("POST", config.endpoints.login, <<>>, "")
FetchArticlesRequest(limit, offset) == Request("GET", config.endpoints.articles, <<limit, offset>>, "")
FetchTagsRequest == Request("GET", config.endpoints.tags, <<>>, "")
CreateArticleRequest(token) == Request("POST", config.endpoints.articles, <<>>, createAuthHeader(token))
ProfileRequestAsPost(token) ==
    Request("POST", config.endpoints.profile, <<>>, createAuthHeader(token))
ProfileRequest(token) == Request("GET", config.endpoints.profile, <<>>, createAuthHeader(token))

\* the request as logged, with the status of the response it received
Answered(request, response) ==
    [method |-> request.method, url |-> request.url, query |-> request.query,
     auth |-> request.auth, status |-> response.status,
     \* the token a login response grants: user.token of the body of a 200
     granted |-> IF /\ request = LoginRequest
                    /\ response.status = 200
                    /\ BodyHolds(response.body, "user", "token")
                 THEN JSONParse(response.body).val.props.user.props.token.str
                 ELSE "",
     \* the slug a creation response names: article.slug of its body
     slug |-> IF /\ request.method = "POST"
                 /\ request.url = config.baseUrl \o config.endpoints.articles
                 /\ BodyHolds(response.body, "article", "slug")
              THEN JSONParse(response.body).val.props.article.props.slug.str
              ELSE ""]

\* record of one check() call: the response it looked at (<<>> for check(null)),
\* the named outcomes and the value returned
CheckCall(subject, c) ==
    [subject |-> subject, named |-> c.recorded, pass |-> c.pass, threw |-> c.threw]

\* the checks a helper recorded, as one check() call on its response
HelperCheck(response, result) ==
    [subject |-> <<Seen(response)>>, named |-> result.checks,
     pass |-> ~result.threw /\ \A i \in 1 .. Len(result.checks) : result.checks[i].pass,
     threw |-> result.threw]

\* an exception raised by a check predicate ends the iteration
Raised(calls) == \E i \in 1 .. Len(calls) : calls[i].threw

\* one blocking call: the request goes out, its response comes back, the
\* checks on it are recorded and the script moves on
Step(request, response, calls, next) ==
    /\ sent' = Append(sent, Answered(request, response))
    /\ recorded' = calls
    /\ pc' = IF Raised(calls) THEN "aborted" ELSE next

\* a token that comes from somewhere else than the login result
TokenOfElsewhere(value) == "jwt0"

\* token of a non-null loginUser result (loginResponse.user.token)
TokenOf(value) ==
    LET t == Get(Get(value, "user"), "token") IN
    IF t.kind = "string" THEN t.str ELSE ""


\* ------------------------------------------------------- setup results
\* an entry of the user list setup() returns
ProvisionedUser(i) ==
    [token |-> "jwt" \o ToString(i), userData |-> [timestamp |-> 0, randomNum |-> i]]

\* user lists setup() can return: nobody, one user, two users
UserLists == {<<>>, <<ProvisionedUser(1)>>, <<ProvisionedUser(1), ProvisionedUser(2)>>}

\* ------------------------------------------------- iterations of a script
\* the local variables of the default function and of the scenario function
\* it calls, before the iteration has assigned them
LocalOf(s) ==
    CASE s = "api" -> [draw |-> 0, scenario |-> "", userData |-> NoUserData,
                       login |-> "none", token |-> "", slug |-> ""]
      [] s = "load" -> [draw |-> 0, scenario |-> "", ret |-> ""]
      [] s = "stress" -> [draw |-> 0, scenario |-> "", token |-> "", i |-> 0]
      [] s = "spike" -> [draw |-> 0, scenario |-> "", i |-> 0]
      [] s = "volume" -> [draw |-> 0, scenario |-> "", token |-> "", pageSize |-> 0,
                          offset |-> 0, n |-> 0, page |-> 0]
      [] s = "soak" -> [draw |-> 0, elapsed |-> 0, soakBehavior |-> "",
                        scenario |-> "", token |-> ""]

\* a loop that repeats a turn whose response was not a 200
nextTurnRetrying(i, status) == IF status = 200 THEN i + 1 ELSE i

\* the loop variable of a for (let i = 0; i < n; i++) loop after a turn whose
\* response had this status: the loops of rapidArticleBrowsing and
\* aggressiveBrowsing have no break, continue or branch on the response
nextTurn(i, status) == i + 1

\* an iteration that removes the user it found first in the setup data
ThinkDroppingUser ==
    /\ pc = "think"
    /\ pc' = "start"
    /\ local' = LocalOf(script)
    /\ sent' = <<>>
    /\ recorded' = <<>>
    /\ data' = [data EXCEPT !.users = IF data.users = <<>> THEN <<>> ELSE Tail(data.users)]
    /\ UNCHANGED <<script, clock, iterationCount, probe>>

\* the think-time sleep that ends the default function: the iteration is over
\* and its locals go out of scope
Think ==
    /\ pc = "think"
    /\ pc' = "start"
    /\ local' = LocalOf(script)
    /\ sent' = <<>>
    /\ recorded' = <<>>
    /\ UNCHANGED <<script, clock, data, iterationCount, probe>>

\* ---------------------------------------------------- helper calls in isolation
UtilFns == {"registerUser", "loginUser", "fetchArticles", "createArticle", "fetchTags"}

ApplyUtil(fn, response) ==
    CASE fn = "registerUser" -> registerUser(response)
      [] fn = "loginUser" -> loginUser(response)
      [] fn = "fetchArticles" -> fetchArticles(response)
      [] fn = "createArticle" -> createArticle(response)
      [] fn = "fetchTags" -> fetchTags(response)

NoData == [token |-> "", users |-> <<>>, startTime |-> 0]
NoProbe == [fn |-> "", called |-> FALSE]

InitUtils ==
    /\ script = "utils"
    /\ pc = "call"
    /\ clock = 0
    /\ data = NoData
    /\ iterationCount = 0
    /\ local = [draw |-> 0]
    /\ sent = <<>>
    /\ recorded = <<>>
    /\ \/ \E fn \in UtilFns, response \in Responses :
             probe = [fn |-> fn, called |-> FALSE, response |-> response]
       \* two calls of generateRandomUserData in one run, each at a clock
       \* reading in milliseconds and with a Math.random() draw of its own
       \/ \E a, b \in [now : {0, 1}, draw : Draws] :
             probe = [fn |-> "generateRandomUserData", called |-> FALSE,
                      first |-> a, second |-> b]

\* the helper performs its request, receives probe.response and returns
CallUtil ==
    /\ script = "utils"
    /\ pc = "call"
    /\ probe.fn \in UtilFns
    /\ pc' = "returned"
    /\ probe' = [fn |-> probe.fn, called |-> TRUE, response |-> probe.response,
                 result |-> ApplyUtil(probe.fn, probe.response)]
    /\ UNCHANGED <<script, clock, data, iterationCount, local, sent, recorded>>

\* both calls of generateRandomUserData return their credential
CallGenerate ==
    /\ script = "utils"
    /\ pc = "call"
    /\ probe.fn = "generateRandomUserData"
    /\ pc' = "returned"
    /\ probe' = [fn |-> probe.fn, called |-> TRUE,
                 first |-> probe.first, second |-> probe.second,
                 firstData |-> generateRandomUserData(probe.first.now, probe.first.draw),
                 secondData |-> generateRandomUserData(probe.second.now, probe.second.draw)]
    /\ UNCHANGED <<script, clock, data, iterationCount, local, sent, recorded>>

NextUtils == CallUtil \/ CallGenerate

SpecUtils == InitUtils /\ [][NextUtils]_vars

\* ======================================================== tests/api-test.ts
\* body.articles && body.articlesCount !== undefined
HasArticlesAndCount(r) ==
    LET p == JSONParse(r.body) IN
    IF ~p.ok \/ ~CanRead(p.val) THEN "throw"
    ELSE Bool(Truthy(Get(p.val, "articles"))
              /\ Get(p.val, "articlesCount").kind # "undefined")

\* body.articles && body.articles.length <= 1
ArticlesWithinLimit(r) ==
    LET p == JSONParse(r.body) IN
    IF ~p.ok \/ ~CanRead(p.val) THEN "throw"
    ELSE LET a == Get(p.val, "articles") IN
         Bool(Truthy(a) /\ Get(a, "length").kind = "number" /\ Get(a, "length").num <= 1)

\* body.user && body.user.email === email
UserEmailIs(r, email) ==
    LET p == JSONParse(r.body) IN
    IF ~p.ok \/ ~CanRead(p.val) THEN "throw"
    ELSE LET u == Get(p.val, "user") IN
         Bool(Truthy(u) /\ Get(u, "email") = Str(email))

\* the dispatcher of the default function
apiScenarioInclusiveCuts(u) ==
    IF u * 10 <= 3 * DrawScale THEN "testPublicAPIs"
    ELSE IF u * 10 <= 6 * DrawScale THEN "testAuthenticationFlow"
    ELSE "testCompleteUserWorkflow"

apiScenario(u) ==
    IF RandLess(u, 3, 10) THEN "testPublicAPIs"
    ELSE IF RandLess(u, 6, 10) THEN "testAuthenticationFlow"
    ELSE "testCompleteUserWorkflow"

ApiEntry(scenario) ==
    CASE scenario = "testPublicAPIs" -> "pub_articles"
      [] scenario = "testAuthenticationFlow" -> "auth_register"
      [] scenario = "testCompleteUserWorkflow" -> "wf_register"

InitApi ==
    /\ script = "api"
    /\ pc = "start"
    /\ clock = 0
    /\ data = NoData
    /\ iterationCount = 0
    /\ local = LocalOf("api")
    /\ sent = <<>>
    /\ recorded = <<>>
    /\ probe = NoProbe

\* default function, up to the first request of the scenario chosen
ApiDefault ==
    /\ script = "api"
    /\ pc \in {"start", "aborted"}
    /\ \E u \in Draws, d \in SuffixDraws :
          local' = [draw |-> u, scenario |-> apiScenario(u),
                    userData |-> IF apiScenario(u) = "testPublicAPIs" THEN NoUserData
                                 ELSE generateRandomUserData(clock, d),
                    login |-> "none", token |-> "", slug |-> ""]
    /\ pc' = ApiEntry(local'.scenario)
    /\ sent' = <<>>
    /\ recorded' = <<>>
    /\ UNCHANGED <<script, clock, data, iterationCount, probe>>

\* ---- testPublicAPIs
PubArticles ==
    /\ script = "api" /\ pc = "pub_articles"
    /\ \E r \in ArticleListReplies :
          LET res == fetchArticles(r) IN
          Step(FetchArticlesRequest(20, 0), r,
               <<HelperCheck(r, res),
                 CheckCall(<<Seen(r)>>, Check(<<
                    Named("Public - Articles basic fetch", Bool(res.status = 200)),
                    Named("Public - Articles has required fields",
                          TryCatch(HasArticlesAndCount(res)))>>))>>,
               "pub_page")
    /\ UNCHANGED <<script, clock, data, iterationCount, local, probe>>

PubPage ==
    /\ script = "api" /\ pc = "pub_page"
    /\ \E r \in ArticleListReplies :
          LET res == fetchArticles(r) IN
          Step(FetchArticlesRequest(5, 10), r,
               <<HelperCheck(r, res),
                 CheckCall(<<Seen(r)>>, Check(<<
                    Named("Public - Articles pagination works", Bool(res.status = 200))>>))>>,
               "pub_limit")
    /\ UNCHANGED <<script, clock, data, iterationCount, local, probe>>

PubLimit ==
    /\ script = "api" /\ pc = "pub_limit"
    /\ \E r \in ArticleListReplies :
          LET res == fetchArticles(r) IN
          Step(FetchArticlesRequest(1, 0), r,
               <<HelperCheck(r, res),
                 CheckCall(<<Seen(r)>>, Check(<<
                    Named("Public - Articles with small limit", Bool(res.status = 200)),
                    Named("Public - Articles respects limit",
                          TryCatch(ArticlesWithinLimit(res)))>>))>>,
               "pub_tags")
    /\ UNCHANGED <<script, clock, data, iterationCount, local, probe>>

PubTags ==
    /\ script = "api" /\ pc = "pub_tags"
    /\ \E r \in TagListReplies :
          LET res == fetchTags(r) IN
          Step(FetchTagsRequest, r,
               <<HelperCheck(r, res),
                 CheckCall(<<Seen(r)>>, Check(<<
                    Named("Public - Tags fetch successful", Bool(res.status = 200)),
                    Named("Public - Tags is array", TryCatch(HasArray(res, "tags")))>>))>>,
               "think")
    /\ UNCHANGED <<script, clock, data, iterationCount, local, probe>>

\* ---- testAuthenticationFlow
\* the return inside the 'User Registration' group leaves that group only:
\* the 'User Login' group runs whatever regSuccess is
AuthAfterRegister(regSuccess) == "auth_login"

AuthRegister ==
    /\ script = "api" /\ pc = "auth_register"
    /\ \E r \in UserReplies(local.userData) :
          LET res == registerUser(r)
              reg == Check(<<
                    Named("Auth - Registration successful", Bool(res.status = 200)),
                    Named("Auth - Registration returns user data",
                          TryCatch(UserEmailIs(res, Email(local.userData))))>>)
          IN Step(RegisterRequest, r, <<HelperCheck(r, res), CheckCall(<<Seen(r)>>, reg)>>,
                  AuthAfterRegister(reg.pass))
    /\ UNCHANGED <<script, clock, data, iterationCount, local, probe>>

AuthLogin ==
    /\ script = "api" /\ pc = "auth_login"
    /\ \E r \in UserReplies(local.userData) :
          LET res == loginUser(r)
              user == Get(res.value, "user")
          IN IF res.value.kind # "null"
             THEN /\ Step(LoginRequest, r,
                       <<[subject |-> <<Seen(r)>>, named |-> res.checks, pass |-> TRUE,
                          threw |-> res.threw],
                         CheckCall(<<>>, Check(<<
                            Named("Auth - Login successful", "true"),
                            Named("Auth - Token received", Bool(TokenOf(res.value) # "")),
                            Named("Auth - User data complete",
                                  Bool(Get(user, "email") = Str(Email(local.userData))
                                       /\ Get(user, "username")
                                            = Str(Username(local.userData))))>>))>>,
                       "auth_profile")
                  /\ local' = [local EXCEPT !.login = "object", !.token = TokenOf(res.value)]
             ELSE /\ Step(LoginRequest, r,
                       <<[subject |-> <<Seen(r)>>, named |-> res.checks, pass |-> FALSE,
                          threw |-> res.threw],
                         CheckCall(<<>>, Check(<<Named("Auth - Login failed", "false")>>))>>,
                       "think")
                  /\ local' = [local EXCEPT !.login = "null"]
    /\ UNCHANGED <<script, clock, data, iterationCount, probe>>

AuthProfile ==
    /\ script = "api" /\ pc = "auth_profile"
    /\ \E r \in UserReplies(local.userData) :
          Step(ProfileRequest(local.token), r,
               <<CheckCall(<<Seen(r)>>, Check(<<
                    Named("Auth - Token validation successful", Bool(r.status = 200)),
                    Named("Auth - Profile data matches",
                          TryCatch(UserEmailIs(r, Email(local.userData))))>>))>>,
               "think")
    /\ UNCHANGED <<script, clock, data, iterationCount, local, probe>>

\* ---- testCompleteUserWorkflow
\* login is attempted only when registration returned 200
WorkflowAfterRegister(status) == IF status = 200 THEN "wf_login" ELSE "think"

\* if (!userToken) return
WorkflowAfterLoginAlways(userToken) == "wf_profile"
WorkflowAfterLogin(userToken) == IF userToken # "" THEN "wf_profile" ELSE "think"

\* if (articleCreated && createResponse.status === 200), then the slug is read
\* from the parsed body inside try/catch
WorkflowAfterCreateAnySuccess(articleCreated, response) ==
    IF articleCreated THEN "wf_favorite" ELSE "think"

WorkflowAfterCreate(articleCreated, response) ==
    LET p == JSONParse(response.body) IN
    IF articleCreated /\ response.status = 200
          /\ p.ok /\ CanRead(p.val) /\ CanRead(Get(p.val, "article"))
    THEN "wf_favorite" ELSE "think"

SlugOf(response) ==
    LET s == Get(Get(JSONParse(response.body).val, "article"), "slug") IN
    IF s.kind = "string" THEN s.str ELSE ""

WfRegister ==
    /\ script = "api" /\ pc = "wf_register"
    /\ \E r \in UserReplies(local.userData) :
          LET res == registerUser(r) IN
          Step(RegisterRequest, r, <<HelperCheck(r, res)>>, WorkflowAfterRegister(res.status))
    /\ UNCHANGED <<script, clock, data, iterationCount, local, probe>>

WfLogin ==
    /\ script = "api" /\ pc = "wf_login"
    /\ \E r \in UserReplies(local.userData) :
          LET res == loginUser(r)
              userToken == IF res.value.kind # "null" THEN TokenOf(res.value) ELSE ""
          IN /\ Step(LoginRequest, r,
                     <<[subject |-> <<Seen(r)>>, named |-> res.checks,
                        pass |-> res.value.kind # "null", threw |-> res.threw]>>,
                     WorkflowAfterLogin(userToken))
             /\ local' = [local EXCEPT
                            !.login = IF res.value.kind # "null" THEN "object" ELSE "null",
                            !.token = userToken]
    /\ UNCHANGED <<script, clock, data, iterationCount, probe>>

WfProfile ==
    /\ script = "api" /\ pc = "wf_profile"
    /\ \E r \in UserReplies(local.userData) :
          Step(ProfileRequest(local.token), r,
               <<CheckCall(<<Seen(r)>>, Check(<<
                    Named("User - Profile access successful", Bool(r.status = 200)),
                    Named("User - Profile has user data",
                          TryCatch(HasNested(r, "user", "email")))>>))>>,
               "wf_articles")
    /\ UNCHANGED <<script, clock, data, iterationCount, local, probe>>

WfArticles ==
    /\ script = "api" /\ pc = "wf_articles"
    /\ \E r \in StatusOnly :
          Step(Request("GET", config.endpoints.articles, <<>>, createAuthHeader(local.token)), r,
               <<CheckCall(<<Seen(r)>>, Check(<<
                    Named("User - Authenticated articles access", Bool(r.status = 200))>>))>>,
               "wf_create")
    /\ UNCHANGED <<script, clock, data, iterationCount, local, probe>>

WfCreate ==
    /\ script = "api" /\ pc = "wf_create"
    /\ \E r \in ArticleReplies :
          LET res == createArticle(r)
              created == Check(<<
                    Named("User - Article creation successful",
                          Bool(res.status = 200 \/ res.status = 201)),
                    Named("User - Created article has slug",
                          TryCatch(HasNested(res, "article", "slug")))>>)
              next == WorkflowAfterCreate(created.pass, r)
          IN /\ Step(CreateArticleRequest(local.token), r,
                     <<HelperCheck(r, res), CheckCall(<<Seen(r)>>, created)>>, next)
             /\ local' = [local EXCEPT !.slug = IF next = "wf_favorite" THEN SlugOf(r) ELSE ""]
    /\ UNCHANGED <<script, clock, data, iterationCount, probe>>

WfFavorite ==
    /\ script = "api" /\ pc = "wf_favorite"
    /\ \E r \in StatusOnly :
          Step(Request("POST", favoriteArticle(local.slug), <<>>, createAuthHeader(local.token)),
               r,
               <<CheckCall(<<Seen(r)>>, Check(<<
                    Named("User - Article favoriting works",
                          Bool(r.status = 200 \/ r.status = 201))>>))>>,
               "think")
    /\ UNCHANGED <<script, clock, data, iterationCount, local, probe>>

NextApi ==
    \/ ApiDefault
    \/ PubArticles \/ PubPage \/ PubLimit \/ PubTags
    \/ AuthRegister \/ AuthLogin \/ AuthProfile
    \/ WfRegister \/ WfLogin \/ WfProfile \/ WfArticles \/ WfCreate \/ WfFavorite
    \/ Think

SpecApi == InitApi /\ [][NextApi]_vars

\* ======================================================= tests/load-test.ts
\* the function the default function calls for draw u
userBehaviorNoFallback(u, token) ==
    IF RandLess(u, 6, 10) THEN "browseArticles"
    ELSE IF RandLess(u, 8, 10) THEN "browseArticlesAndTags"
    ELSE "authenticatedUserActions"

userBehavior(u, token) ==
    IF RandLess(u, 6, 10) THEN "browseArticles"
    ELSE IF RandLess(u, 8, 10) THEN "browseArticlesAndTags"
    ELSE IF token # "" THEN "authenticatedUserActions"
    ELSE "browseArticles"

InitLoad ==
    /\ script = "load"
    /\ pc = "start"
    /\ clock = 0
    \* the value setup() returned: the token of the provisioned user, or ''
    \* when registration or login failed
    /\ data \in {[token |-> t, users |-> <<>>, startTime |-> 0] : t \in {"", "jwt1"}}
    /\ iterationCount = 0
    /\ local = LocalOf("load")
    /\ sent = <<>>
    /\ recorded = <<>>
    /\ probe = NoProbe

LoadDefault ==
    /\ script = "load"
    /\ pc \in {"start", "aborted"}
    /\ \E u \in Draws :
          LET f == userBehavior(u, data.token) IN
          /\ local' = [draw |-> u, scenario |-> f,
                       ret |-> IF f = "authenticatedUserActions" THEN "profile" ELSE "think"]
          /\ pc' = IF f = "browseArticlesAndTags" THEN "tags" ELSE "browse_first"
    /\ sent' = <<>>
    /\ recorded' = <<>>
    /\ UNCHANGED <<script, clock, data, iterationCount, probe>>

\* browseArticlesAndTags, up to its call of browseArticles
LoadTags ==
    /\ script = "load" /\ pc = "tags"
    /\ \E r \in TagListReplies :
          LET res == fetchTags(r) IN
          Step(FetchTagsRequest, r,
               <<HelperCheck(r, res),
                 CheckCall(<<Seen(r)>>, Check(<<
                    Named("Browse tags - successful", Bool(res.status = 200))>>))>>,
               "browse_first")
    /\ UNCHANGED <<script, clock, data, iterationCount, local, probe>>

\* browseArticles: the first page, then the 30% draw for a second page
BrowseFirst ==
    /\ script = "load" /\ pc = "browse_first"
    /\ \E r \in ArticleListReplies, more \in Draws :
          LET res == fetchArticles(r) IN
          Step(FetchArticlesRequest(10, 0), r,
               <<HelperCheck(r, res),
                 CheckCall(<<Seen(r)>>, Check(<<
                    Named("Browse articles - successful", Bool(res.status = 200))>>))>>,
               IF RandLess(more, 3, 10) THEN "browse_more" ELSE local.ret)
    /\ UNCHANGED <<script, clock, data, iterationCount, local, probe>>

BrowseMore ==
    /\ script = "load" /\ pc = "browse_more"
    /\ \E r \in ArticleListReplies :
          LET res == fetchArticles(r) IN
          Step(FetchArticlesRequest(10, 10), r, <<HelperCheck(r, res)>>, local.ret)
    /\ UNCHANGED <<script, clock, data, iterationCount, local, probe>>

\* authenticatedUserActions after browseArticles: the profile request; the
\* 10% content-creation branch only sleeps
LoadProfile ==
    /\ script = "load" /\ pc = "profile"
    /\ \E r \in StatusOnly, create \in Draws :
          Step(ProfileRequest(data.token), r,
               <<CheckCall(<<Seen(r)>>, Check(<<
                    Named("Get user profile - successful", Bool(r.status = 200))>>))>>,
               "think")
    /\ UNCHANGED <<script, clock, data, iterationCount, local, probe>>

NextLoad == LoadDefault \/ LoadTags \/ BrowseFirst \/ BrowseMore \/ LoadProfile
    \/ Think

SpecLoad == InitLoad /\ [][NextLoad]_vars

\* ===================================================== tests/stress-test.ts
\* the value setup() returns is {testUsers: [...]}; the model keeps the list
\* in data.users
stressScenarioNoFallback(u, users) ==
    IF RandLess(u, 4, 10) THEN "rapidArticleBrowsing"
    ELSE IF RandLess(u, 7, 10) THEN "mixedBrowsingStress"
    ELSE "authenticatedStressActions"

stressScenario(u, users) ==
    IF RandLess(u, 4, 10) THEN "rapidArticleBrowsing"
    ELSE IF RandLess(u, 7, 10) THEN "mixedBrowsingStress"
    ELSE IF Len(users) > 0 THEN "authenticatedStressActions"
    ELSE "rapidArticleBrowsing"

\* the three requests of the mixedBrowsingStress batch, in list order
MixedStressBatch ==
    <<Request("GET", config.endpoints.articles, <<>>, ""),
      Request("GET", config.endpoints.tags, <<>>, ""),
      Request("GET", config.endpoints.articles, <<5, 0>>, "")>>

\* the three requests of the authenticatedStressActions batch, in list order
AuthStressBatch(token) ==
    <<Request("GET", config.endpoints.profile, <<>>, createAuthHeader(token)),
      Request("GET", config.endpoints.articles, <<>>, createAuthHeader(token)),
      Request("GET", config.endpoints.articles, <<20, 0>>, createAuthHeader(token))>>

InitStress ==
    /\ script = "stress"
    /\ pc = "start"
    /\ clock = 0
    /\ data \in {[token |-> "", users |-> us, startTime |-> 0] : us \in UserLists}
    /\ iterationCount = 0
    /\ local = LocalOf("stress")
    /\ sent = <<>>
    /\ recorded = <<>>
    /\ probe = NoProbe

StressDefault ==
    /\ script = "stress"
    /\ pc \in {"start", "aborted"}
    /\ \E u \in Draws, a \in Draws :
          LET f == stressScenario(u, data.users)
              \* randomUser is undefined when the list is empty, and reading
              \* its token raises a TypeError
              k == RandFloor(a, Len(data.users)) + 1
              hasUser == k \in 1 .. Len(data.users)
          IN
          /\ local' = [draw |-> u, scenario |-> f, i |-> 0,
                       token |-> IF f = "authenticatedStressActions" /\ hasUser
                                 THEN data.users[k].token
                                 ELSE ""]
          /\ pc' = CASE f = "rapidArticleBrowsing" -> "rapid"
                     [] f = "mixedBrowsingStress" -> "mixed_stress"
                     [] f = "authenticatedStressActions" ->
                            IF hasUser THEN "auth_stress" ELSE "aborted"
    /\ sent' = <<>>
    /\ recorded' = <<>>
    /\ UNCHANGED <<script, clock, data, iterationCount, probe>>

\* one turn of the loop of rapidArticleBrowsing: fetchArticles(10, i * 10),
\* its check, sleep(0.2)
RapidBrowse ==
    /\ script = "stress" /\ pc = "rapid"
    /\ \E r \in ArticleListReplies :
          LET res == fetchArticles(r) IN
          /\ Step(FetchArticlesRequest(10, local.i * 10), r,
                  <<HelperCheck(r, res),
                    CheckCall(<<Seen(r)>>, Check(<<
                        Named("Rapid browse page " \o ToString(local.i + 1) \o " - success",
                              Bool(res.status = 200))>>))>>,
                  IF nextTurn(local.i, r.status) < 3 THEN "rapid" ELSE "think")
          /\ local' = [local EXCEPT !.i = nextTurn(local.i, r.status)]
    /\ UNCHANGED <<script, clock, data, iterationCount, probe>>

\* mixedBrowsingStress: the batch goes out, the responses come back in
\* submission order and each is checked
MixedStress ==
    /\ script = "stress" /\ pc = "mixed_stress"
    /\ \E rs \in [1 .. Len(MixedStressBatch) -> StatusOnly] :
          LET calls == [i \in 1 .. Len(MixedStressBatch) |->
                          CheckCall(<<Seen(rs[i])>>, Check(<<
                              Named("Batch request " \o ToString(i) \o " - success",
                                    Bool(rs[i].status = 200))>>))]
          IN /\ sent' = sent \o [i \in 1 .. Len(MixedStressBatch) |->
                                    Answered(MixedStressBatch[i], rs[i])]
             /\ recorded' = calls
             /\ pc' = IF Raised(calls) THEN "aborted" ELSE "think"
    /\ UNCHANGED <<script, clock, data, iterationCount, local, probe>>

\* authenticatedStressActions: the batch, a check per response, then the
\* check of successCount >= responses.length * 0.7
AuthStress ==
    /\ script = "stress" /\ pc = "auth_stress"
    /\ \E rs \in [1 .. Len(AuthStressBatch(local.token)) -> StatusOnly] :
          LET batch == AuthStressBatch(local.token)
              calls == [i \in 1 .. Len(batch) |->
                          CheckCall(<<Seen(rs[i])>>, Check(<<
                              Named("Authenticated batch " \o ToString(i) \o " - success",
                                    Bool(rs[i].status = 200 \/ rs[i].status = 201))>>))]
              successCount == Cardinality({i \in 1 .. Len(batch) : calls[i].pass})
          IN /\ sent' = sent \o [i \in 1 .. Len(batch) |-> Answered(batch[i], rs[i])]
             /\ recorded' = Append(calls,
                    CheckCall(<<>>, Check(<<
                        Named("Authenticated stress batch - majority success",
                              Bool(successCount * 10 >= Len(batch) * 7))>>)))
             /\ pc' = IF Raised(calls) THEN "aborted" ELSE "think"
    /\ UNCHANGED <<script, clock, data, iterationCount, local, probe>>

NextStress == StressDefault \/ RapidBrowse \/ MixedStress \/ AuthStress \/ Think

SpecStress == InitStress /\ [][NextStress]_vars

\* ==================================================== tests/spike-test.ts
Timed == [status : Statuses, body : {Body.none}, duration : Durations]

\* a dispatcher whose first cut is at 0.6
spikeScenarioShiftedCut(u) ==
    IF RandLess(u, 6, 10) THEN "aggressiveBrowsing"
    ELSE IF RandLess(u, 8, 10) THEN "quickHitAndRun"
    ELSE "heavyResourceConsumption"

spikeScenario(u) ==
    IF RandLess(u, 5, 10) THEN "aggressiveBrowsing"
    ELSE IF RandLess(u, 8, 10) THEN "quickHitAndRun"
    ELSE "heavyResourceConsumption"

\* the four URLs of aggressiveBrowsing, in list order
AggressiveRequests ==
    <<Request("GET", config.endpoints.articles, <<>>, ""),
      Request("GET", config.endpoints.articles, <<20, 0>>, ""),
      Request("GET", config.endpoints.tags, <<>>, ""),
      Request("GET", config.endpoints.articles, <<10, 20>>, "")>>

\* the four requests of the heavyResourceConsumption batch, in list order
HeavyBatch ==
    <<Request("GET", config.endpoints.articles, <<50, 0>>, ""),
      Request("GET", config.endpoints.tags, <<>>, ""),
      Request("GET", config.endpoints.articles, <<20, 50>>, ""),
      Request("GET", config.endpoints.articles, <<20, 100>>, "")>>

AggressiveCheck(r, i) ==
    Check(<<Named("Aggressive browse " \o ToString(i) \o " - response received",
                  Bool(r.status > 0)),
            Named("Aggressive browse " \o ToString(i) \o " - success or graceful failure",
                  Bool(r.status < 500))>>)

QuickHitCheck(r) ==
    Check(<<Named("Quick hit - got response", Bool(r.status > 0)),
            Named("Quick hit - not server error", Bool(r.status < 500)),
            Named("Quick hit - reasonably fast", Bool(r.duration < 5000))>>)

HeavyCheckOnly200(r, i) ==
    Check(<<Named("Heavy load batch " \o ToString(i) \o " - got response",
                  Bool(r.status > 0)),
            Named("Heavy load batch " \o ToString(i) \o " - acceptable status",
                  Bool(r.status = 200))>>)

HeavyCheck(r, i) ==
    Check(<<Named("Heavy load batch " \o ToString(i) \o " - got response",
                  Bool(r.status > 0)),
            Named("Heavy load batch " \o ToString(i) \o " - acceptable status",
                  Bool(r.status = 200 \/ r.status = 429))>>)

InitSpike ==
    /\ script = "spike"
    /\ pc = "start"
    /\ clock = 0
    /\ data = NoData
    /\ iterationCount = 0
    /\ local = LocalOf("spike")
    /\ sent = <<>>
    /\ recorded = <<>>
    /\ probe = NoProbe

SpikeDefault ==
    /\ script = "spike"
    /\ pc \in {"start", "aborted"}
    /\ \E u \in Draws :
          /\ local' = [draw |-> u, scenario |-> spikeScenario(u), i |-> 0]
          /\ pc' = CASE spikeScenario(u) = "aggressiveBrowsing" -> "aggressive"
                     [] spikeScenario(u) = "quickHitAndRun" -> "quick_hit"
                     [] spikeScenario(u) = "heavyResourceConsumption" -> "heavy"
    /\ sent' = <<>>
    /\ recorded' = <<>>
    /\ UNCHANGED <<script, clock, data, iterationCount, probe>>

\* one turn of the loop of aggressiveBrowsing: requests[i], its check, sleep(0.1)
Aggressive ==
    /\ script = "spike" /\ pc = "aggressive"
    /\ \E r \in StatusOnly :
          /\ Step(AggressiveRequests[local.i + 1], r,
                  <<CheckCall(<<Seen(r)>>, AggressiveCheck(r, local.i + 1))>>,
                  IF nextTurn(local.i, r.status) < Len(AggressiveRequests)
                  THEN "aggressive" ELSE "think")
          /\ local' = [local EXCEPT !.i = nextTurn(local.i, r.status)]
    /\ UNCHANGED <<script, clock, data, iterationCount, probe>>

QuickHit ==
    /\ script = "spike" /\ pc = "quick_hit"
    /\ \E r \in Timed :
          Step(Request("GET", config.endpoints.articles, <<5, 0>>, ""), r,
               <<CheckCall(<<Seen(r)>>, QuickHitCheck(r))>>, "think")
    /\ UNCHANGED <<script, clock, data, iterationCount, local, probe>>

\* heavyResourceConsumption: the batch goes out, all responses come back in
\* submission order, each is checked, then the two batch-level checks
Heavy ==
    /\ script = "spike" /\ pc = "heavy"
    /\ \E rs \in [1 .. Len(HeavyBatch) -> StatusOnly] :
          LET calls == [i \in 1 .. Len(HeavyBatch) |->
                            CheckCall(<<Seen(rs[i])>>, HeavyCheck(rs[i], i))]
              responseCount == Cardinality({i \in 1 .. Len(HeavyBatch) : rs[i].status > 0})
              successCount == Cardinality({i \in 1 .. Len(HeavyBatch) : calls[i].pass})
          IN /\ sent' = sent \o [i \in 1 .. Len(HeavyBatch) |-> Answered(HeavyBatch[i], rs[i])]
             /\ recorded' = Append(calls,
                    CheckCall(<<>>, Check(<<
                        Named("Heavy load batch - got most responses",
                              Bool(responseCount * 10 >= Len(HeavyBatch) * 7)),
                        Named("Heavy load batch - acceptable success rate",
                              Bool(successCount * 10 >= Len(HeavyBatch) * 5))>>)))
             /\ pc' = IF Raised(calls) THEN "aborted" ELSE "think"
    /\ UNCHANGED <<script, clock, data, iterationCount, local, probe>>

NextSpike == SpikeDefault \/ Aggressive \/ QuickHit \/ Heavy
    \/ Think

SpecSpike == InitSpike /\ [][NextSpike]_vars

\* =================================================== tests/volume-test.ts
pageSizes == <<10, 20, 50>>
offsetsBelowZero == <<0, 50, 100, 200, 500, -1000>>
offsets == <<0, 50, 100, 200, 500, 1000>>

volumeScenario(u, users) ==
    IF RandLess(u, 4, 10) THEN "largePaginationTesting"
    ELSE IF RandLess(u, 7, 10) THEN "extensiveBrowsingSimulation"
    ELSE IF Len(users) > 0 THEN "authenticatedBulkOperations"
    ELSE "largePaginationTesting"

\* a session of 4 to 11 pages
browsePagesCountOneMore(d) == RandFloor(d, 8) + 4

\* Math.floor(Math.random() * 8) + 3
browsePagesCount(d) == RandFloor(d, 8) + 3

\* the loop of extensiveBrowsingSimulation after one page: break when the
\* check failed, else the next page while page < browsePagesCount
ExtensiveNextIgnoringFailure(success, page, n) ==
    IF page + 1 < n THEN "ext_page" ELSE "think"

ExtensiveNext(success, page, n) ==
    IF ~success THEN "think"
    ELSE IF page + 1 < n THEN "ext_page" ELSE "think"

InitVolume ==
    /\ script = "volume"
    /\ pc = "start"
    /\ clock = 0
    /\ data \in {[token |-> "", users |-> us, startTime |-> 0] : us \in UserLists}
    /\ iterationCount = 0
    /\ local = LocalOf("volume")
    /\ sent = <<>>
    /\ recorded = <<>>
    /\ probe = NoProbe

VolumeDefault ==
    /\ script = "volume"
    /\ pc \in {"start", "aborted"}
    /\ \E u \in Draws, a \in Draws, b \in Draws :
          LET f == volumeScenario(u, data.users) IN
          CASE f = "largePaginationTesting" ->
                  /\ local' = [LocalOf("volume") EXCEPT
                                 !.draw = u, !.scenario = f,
                                 !.pageSize = pageSizes[RandFloor(a, Len(pageSizes)) + 1],
                                 !.offset = offsets[RandFloor(b, Len(offsets)) + 1]]
                  /\ pc' = "page_fetch"
            [] f = "extensiveBrowsingSimulation" ->
                  /\ local' = [LocalOf("volume") EXCEPT
                                 !.draw = u, !.scenario = f,
                                 !.pageSize = 20, !.n = browsePagesCount(a)]
                  /\ pc' = "ext_page"
            [] f = "authenticatedBulkOperations" ->
                  /\ local' = [LocalOf("volume") EXCEPT
                                 !.draw = u, !.scenario = f,
                                 !.token = data.users[RandFloor(a, Len(data.users)) + 1].token]
                  /\ pc' = "bulk_profile"
    /\ sent' = <<>>
    /\ recorded' = <<>>
    /\ UNCHANGED <<script, clock, data, iterationCount, probe>>

\* ---- largePaginationTesting
PageFetch ==
    /\ script = "volume" /\ pc = "page_fetch"
    /\ \E r \in ArticleListReplies, tags \in Draws :
          LET res == fetchArticles(r)
              label == "Large pagination (" \o ToString(local.pageSize) \o "/"
                          \o ToString(local.offset) \o ")"
          IN Step(FetchArticlesRequest(local.pageSize, local.offset), r,
                  <<HelperCheck(r, res),
                    CheckCall(<<Seen(r)>>, Check(<<
                        Named(label \o " - success", Bool(res.status = 200)),
                        Named(label \o " - reasonable time", "true"),
                        Named(label \o " - has data", TryCatch(HasArticlesAndCount(res)))>>))>>,
                  IF RandLess(tags, 3, 10) THEN "page_tags" ELSE "think")
    /\ UNCHANGED <<script, clock, data, iterationCount, local, probe>>

PageTags ==
    /\ script = "volume" /\ pc = "page_tags"
    /\ \E r \in TagListReplies :
          LET res == fetchTags(r) IN
          Step(FetchTagsRequest, r, <<HelperCheck(r, res)>>, "think")
    /\ UNCHANGED <<script, clock, data, iterationCount, local, probe>>

\* ---- extensiveBrowsingSimulation: one turn of the page loop; the turn that
\* leaves the loop also records the session check
ExtPage ==
    /\ script = "volume" /\ pc = "ext_page"
    /\ \E r \in ArticleListReplies :
          LET res == fetchArticles(r)
              page == Check(<<
                    Named("Extensive browse page " \o ToString(local.page + 1) \o " - success",
                          Bool(res.status = 200)),
                    Named("Extensive browse page " \o ToString(local.page + 1)
                              \o " - consistent performance", "true")>>)
              next == ExtensiveNext(page.pass, local.page, local.n)
              session == CheckCall(<<>>, Check(<<
                    Named("Extensive browsing session - completed successfully", "true")>>))
              calls == <<HelperCheck(r, res), CheckCall(<<Seen(r)>>, page)>>
          IN /\ Step(FetchArticlesRequest(local.pageSize, local.offset), r,
                     IF next = "think" THEN Append(calls, session) ELSE calls, next)
             /\ local' = IF page.pass
                         THEN [local EXCEPT !.offset = local.offset + local.pageSize,
                                            !.page = local.page + 1]
                         ELSE local
    /\ UNCHANGED <<script, clock, data, iterationCount, probe>>

\* ---- authenticatedBulkOperations
BulkProfile ==
    /\ script = "volume" /\ pc = "bulk_profile"
    /\ \E r \in StatusOnly :
          Step(ProfileRequest(local.token), r,
               <<CheckCall(<<Seen(r)>>, Check(<<
                    Named("Bulk ops - profile fetch", Bool(r.status = 200))>>))>>,
               "bulk_articles")
    /\ UNCHANGED <<script, clock, data, iterationCount, local, probe>>

\* the offset loop after one page: break when the check failed, else the next
\* offset while it is below 100; after is where the function goes on
BulkNextIgnoringFailure(hasMore, offset, after) ==
    IF offset + 20 < 100 THEN "bulk_articles" ELSE after

BulkNext(hasMore, offset, after) ==
    IF ~hasMore THEN after
    ELSE IF offset + 20 < 100 THEN "bulk_articles" ELSE after

\* one turn of the offset loop; the turn that leaves the loop draws the 10%
\* chance of creating an article
BulkArticles ==
    /\ script = "volume" /\ pc = "bulk_articles"
    /\ \E r \in StatusOnly, create \in Draws :
          LET hasMore == Check(<<
                    Named("Bulk ops - articles page " \o ToString((local.offset \div 20) + 1),
                          Bool(r.status = 200))>>)
              after == IF RandLess(create, 1, 10) THEN "bulk_create" ELSE "think"
          IN /\ Step(Request("GET", config.endpoints.articles, <<20, local.offset>>,
                             createAuthHeader(local.token)), r,
                     <<CheckCall(<<Seen(r)>>, hasMore)>>,
                     BulkNext(hasMore.pass, local.offset, after))
             /\ local' = IF hasMore.pass
                         THEN [local EXCEPT !.offset = local.offset + 20]
                         ELSE local
    /\ UNCHANGED <<script, clock, data, iterationCount, probe>>

BulkCreate ==
    /\ script = "volume" /\ pc = "bulk_create"
    /\ \E r \in ArticleReplies :
          LET res == createArticle(r) IN
          Step(CreateArticleRequest(local.token), r,
               <<HelperCheck(r, res),
                 CheckCall(<<Seen(r)>>, Check(<<
                    Named("Bulk ops - content creation",
                          Bool(res.status = 200 \/ res.status = 201))>>))>>,
               "think")
    /\ UNCHANGED <<script, clock, data, iterationCount, local, probe>>

NextVolume ==
    \/ VolumeDefault
    \/ PageFetch \/ PageTags
    \/ ExtPage
    \/ BulkProfile \/ BulkArticles \/ BulkCreate
    \/ Think

SpecVolume == InitVolume /\ [][NextVolume]_vars

\* ===================================================== tests/soak-test.ts
\* 1000 * 60
MsPerMinute == 60000

\* selectSoakBehavior(elapsedMinutes) with its Math.random() draw d; elapsed
\* is in milliseconds, so elapsedMinutes < m is elapsed < m * MsPerMinute
selectSoakBehaviorInclusive(elapsed, d) ==
    IF elapsed <= 5 * MsPerMinute
    THEN IF RandLess(d, 7, 10) THEN "steady_browsing" ELSE "mixed_load"
    ELSE IF elapsed <= 35 * MsPerMinute
    THEN IF RandLess(d, 4, 10) THEN "steady_browsing"
         ELSE IF RandLess(d, 7, 10) THEN "authenticated_session"
         ELSE "mixed_load"
    ELSE "steady_browsing"

\* a selection that uses the pattern of the main phase from the start
selectSoakBehaviorNoRampUp(elapsed, d) ==
    IF elapsed < 35 * MsPerMinute
    THEN IF RandLess(d, 4, 10) THEN "steady_browsing"
         ELSE IF RandLess(d, 7, 10) THEN "authenticated_session"
         ELSE "mixed_load"
    ELSE "steady_browsing"

selectSoakBehavior(elapsed, d) ==
    IF elapsed < 5 * MsPerMinute
    THEN IF RandLess(d, 7, 10) THEN "steady_browsing" ELSE "mixed_load"
    ELSE IF elapsed < 35 * MsPerMinute
    THEN IF RandLess(d, 4, 10) THEN "steady_browsing"
         ELSE IF RandLess(d, 7, 10) THEN "authenticated_session"
         ELSE "mixed_load"
    ELSE "steady_browsing"

\* the head of the default function: iterationCount has been incremented to
\* count, currentTime is now; the behaviour is selected from the time elapsed
\* since data.startTime
soakBehaviorByCount(startTime, now, count, d) ==
    IF count % 2 = 0 THEN "steady_browsing" ELSE selectSoakBehavior(now - startTime, d)

soakBehaviorOf(startTime, now, count, d) ==
    selectSoakBehavior(now - startTime, d)

\* the function the switch of the default function calls
soakScenario(soakBehavior, users) ==
    CASE soakBehavior = "steady_browsing" -> "steadyBrowsing"
      [] soakBehavior = "authenticated_session" ->
            IF Len(users) > 0 THEN "authenticatedSession" ELSE "steadyBrowsing"
      [] soakBehavior = "mixed_load" -> "mixedLoadPattern"
      [] OTHER -> "steadyBrowsing"

\* data.authenticatedUsers[iterationCount % data.authenticatedUsers.length]
soakUserOf(users, count) == users[(count % Len(users)) + 1]

\* the token handed to authenticatedSession, "" when another scenario runs
soakTokenOf(soakBehavior, users, count) ==
    IF soakScenario(soakBehavior, users) = "authenticatedSession"
    THEN soakUserOf(users, count).token
    ELSE ""

\* the two requests of the mixedLoadPattern batch, in list order
MixedBatch ==
    <<Request("GET", config.endpoints.articles, <<10, 0>>, ""),
      Request("GET", config.endpoints.tags, <<>>, "")>>

InitSoak ==
    /\ script = "soak"
    /\ pc = "start"
    /\ clock = 0
    /\ data \in {[token |-> "", users |-> us, startTime |-> 0] : us \in UserLists}
    /\ iterationCount = 0
    /\ local = LocalOf("soak")
    /\ sent = <<>>
    /\ recorded = <<>>
    /\ probe = NoProbe

\* time passes; the script reads the clock only at the head of the default
\* function, so the time an iteration takes is added once it has ended
Tick ==
    /\ script = "soak"
    /\ pc = "start"
    /\ clock < data.startTime + MaxTicks * TickMs
    /\ clock' = clock + TickMs
    /\ UNCHANGED <<script, pc, data, iterationCount, local, sent, recorded, probe>>

SoakDefault ==
    /\ script = "soak"
    /\ pc \in {"start", "aborted"}
    /\ iterationCount < MaxIterations
    /\ iterationCount' = iterationCount + 1
    /\ \E d \in Draws :
          LET b == soakBehaviorOf(data.startTime, clock, iterationCount', d)
              f == soakScenario(b, data.users)
          IN /\ local' = [draw |-> d, elapsed |-> clock - data.startTime,
                          soakBehavior |-> b, scenario |-> f,
                          token |-> soakTokenOf(b, data.users, iterationCount')]
             /\ pc' = CASE f = "steadyBrowsing" -> "steady_articles"
                        [] f = "authenticatedSession" -> "session_profile"
                        [] f = "mixedLoadPattern" -> "mixed_batch"
    /\ sent' = <<>>
    /\ recorded' = <<>>
    /\ UNCHANGED <<script, clock, data, probe>>

\* ---- steadyBrowsing
SteadyArticles ==
    /\ script = "soak" /\ pc = "steady_articles"
    /\ \E r \in ArticleListReplies, o \in SuffixDraws, tags \in Draws :
          LET res == fetchArticles(r) IN
          Step(FetchArticlesRequest(10, RandFloor(o, 100)), r,
               <<HelperCheck(r, res),
                 CheckCall(<<Seen(r)>>, Check(<<
                    Named("Soak - steady browse success", Bool(res.status = 200)),
                    Named("Soak - steady browse performance", "true")>>))>>,
               IF RandLess(tags, 2, 10) THEN "steady_tags" ELSE "think")
    /\ UNCHANGED <<script, clock, data, iterationCount, local, probe>>

SteadyTags ==
    /\ script = "soak" /\ pc = "steady_tags"
    /\ \E r \in TagListReplies :
          LET res == fetchTags(r) IN
          Step(FetchTagsRequest, r,
               <<HelperCheck(r, res),
                 CheckCall(<<Seen(r)>>, Check(<<
                    Named("Soak - tags fetch success", Bool(res.status = 200))>>))>>,
               "think")
    /\ UNCHANGED <<script, clock, data, iterationCount, local, probe>>

\* ---- authenticatedSession
SessionProfile ==
    /\ script = "soak" /\ pc = "session_profile"
    /\ \E r \in UserReplies(NoUserData) :
          Step(ProfileRequest(local.token), r,
               <<CheckCall(<<Seen(r)>>, Check(<<
                    Named("Soak - session profile check", Bool(r.status = 200)),
                    Named("Soak - session still valid",
                          TryCatch(HasNested(r, "user", "email")))>>))>>,
               "session_articles")
    /\ UNCHANGED <<script, clock, data, iterationCount, local, probe>>

SessionArticles ==
    /\ script = "soak" /\ pc = "session_articles"
    /\ \E r \in StatusOnly :
          Step(Request("GET", config.endpoints.articles, <<15, 0>>, createAuthHeader(local.token)), r,
               <<CheckCall(<<Seen(r)>>, Check(<<
                    Named("Soak - authenticated browse", Bool(r.status = 200))>>))>>,
               "think")
    /\ UNCHANGED <<script, clock, data, iterationCount, local, probe>>

\* ---- mixedLoadPattern
MixedBatchStep ==
    /\ script = "soak" /\ pc = "mixed_batch"
    /\ \E rs \in [1 .. Len(MixedBatch) -> Timed] :
          LET calls == [i \in 1 .. Len(MixedBatch) |->
                          CheckCall(<<Seen(rs[i])>>, Check(<<
                              Named("Soak - mixed load " \o ToString(i) \o " success",
                                    Bool(rs[i].status = 200)),
                              Named("Soak - mixed load " \o ToString(i) \o " performance",
                                    Bool(rs[i].duration < 4000))>>))]
              successCount == Cardinality({i \in 1 .. Len(MixedBatch) : calls[i].pass})
          IN /\ sent' = sent \o [i \in 1 .. Len(MixedBatch) |-> Answered(MixedBatch[i], rs[i])]
             /\ recorded' = Append(calls,
                    CheckCall(<<>>, Check(<<
                        Named("Soak - mixed load batch success",
                              Bool(successCount * 10 >= Len(MixedBatch) * 8))>>)))
             /\ pc' = IF Raised(calls) THEN "aborted" ELSE "think"
    /\ UNCHANGED <<script, clock, data, iterationCount, local, probe>>

NextSoak ==
    \/ Tick
    \/ SoakDefault
    \/ SteadyArticles \/ SteadyTags
    \/ SessionProfile \/ SessionArticles
    \/ MixedBatchStep
    \/ Think

SpecSoak == InitSoak /\ [][NextSoak]_vars

\* ---- two iterations of one run side by side: each starts at a clock
\* reading, with an iteration counter and a draw of its own, and both get the
\* same setup data
InitSoakPair ==
    /\ script = "soak"
    /\ pc = "pair"
    /\ clock = 0
    /\ data \in {[token |-> "", users |-> us, startTime |-> 0] : us \in UserLists}
    /\ iterationCount = 0
    /\ local = LocalOf("soak")
    /\ sent = <<>>
    /\ recorded = <<>>
    /\ \E a \in [now : {k * TickMs : k \in 0 .. MaxTicks}, count : 1 .. MaxIterations,
                 draw : Draws],
          k \in {0, 1}, c \in 1 .. MaxIterations, d \in Draws :
          probe = [fn |-> "soakBehaviorOf", called |-> FALSE, first |-> a,
                   second |-> [now |-> a.now + k * TickMs, count |-> c, draw |-> d]]

SelectPair ==
    /\ script = "soak"
    /\ pc = "pair"
    /\ pc' = "selected"
    /\ LET b1 == soakBehaviorOf(data.startTime, probe.first.now,
                                probe.first.count, probe.first.draw)
           b2 == soakBehaviorOf(data.startTime, probe.second.now,
                                probe.second.count, probe.second.draw)
       IN probe' = [fn |-> probe.fn, called |-> TRUE,
                    first |-> probe.first, second |-> probe.second,
                    firstBehavior |-> b1, secondBehavior |-> b2,
                    firstToken |-> soakTokenOf(b1, data.users, probe.first.count),
                    secondToken |-> soakTokenOf(b2, data.users, probe.second.count)]
    /\ UNCHANGED <<script, clock, data, iterationCount, local, sent, recorded>>

NextSoakPair == SelectPair

SpecSoakPair == InitSoakPair /\ [][NextSoakPair]_vars

\* ================================================== setup() of the scripts
\* the provisioning loop of each setup(): how many users it tries to create
\* and the sleep that ends each turn of the loop, in milliseconds (0: the
\* loop has no sleep); the load script provisions its one user without a loop
provisioning ==
    [load |-> [count |-> 1, pause |-> 0],
     stress |-> [count |-> 5, pause |-> 0],
     volume |-> [count |-> 10, pause |-> 500],
     soak |-> [count |-> 3, pause |-> 1000]]

\* if (regResponse.status === 200) the login follows, else the turn is over
SetupAfterRegisterAlways(status, after) == "setup_login"
SetupAfterRegister(status, after) == IF status = 200 THEN "setup_login" ELSE after

\* where setup goes after the loop variable has become i: the next turn, the
\* pre-creation of content (volume script, when a user exists) or the return
SetupLoop(s, i, users) ==
    IF i < provisioning[s].count THEN "setup_register"
    ELSE IF s = "volume" /\ Len(users) > 0 THEN "setup_content"
    ELSE "setup_return"

\* local.i is the loop variable, local.users the list being built,
\* local.granted the credentials whose registration was answered with 200 and
\* whose login was answered with 200 and a body holding a token (kept for
\* the comparison with local.users), local.trail the last two things setup
\* did
InitSetup ==
    /\ script \in DOMAIN provisioning
    /\ pc = "setup_register"
    /\ clock = 0
    /\ data = NoData
    /\ iterationCount = 0
    /\ local = [i |-> 0, userData |-> NoUserData, users |-> <<>>, granted |-> <<>>,
                trail |-> <<>>]
    /\ sent = <<>>
    /\ recorded = <<>>
    /\ probe = NoProbe

\* what setup did last and the thing before it
Trail(trail, event) ==
    IF trail = <<>> THEN <<event>> ELSE <<trail[Len(trail)], event>>

\* a turn of the loop: generateRandomUserData() and registerUser(userData);
\* the random suffix drawn in turn i is the i-th draw
SetupRegister ==
    /\ pc = "setup_register"
    /\ \E r \in StatusOnly :
          LET res == registerUser(r) IN
          /\ Step(RegisterRequest, r, <<HelperCheck(r, res)>>,
                  SetupAfterRegister(res.status, "setup_turn"))
          /\ local' = [local EXCEPT
                         !.userData = generateRandomUserData(clock, local.i % DrawScale),
                         !.trail = Trail(local.trail, "register")]
    /\ UNCHANGED <<script, clock, data, iterationCount, probe>>

\* loginUser(userData.email, userData.password) and, when it returned an
\* object, the push of {token, userData}
SetupLogin ==
    /\ pc = "setup_login"
    /\ \E r \in Replies({Body.none, Body.html, Body.userNull, Body.userEmptyToken,
                         Body.userToken}) :
          LET res == loginUser(r) IN
          /\ Step(LoginRequest, r,
                  <<[subject |-> <<Seen(r)>>, named |-> res.checks,
                     pass |-> res.value.kind # "null", threw |-> res.threw]>>,
                  "setup_turn")
          /\ local' = [local EXCEPT
                         !.users =
                            IF res.value.kind # "null"
                            THEN Append(local.users, [token |-> TokenOf(res.value),
                                                      userData |-> local.userData])
                            ELSE local.users,
                         !.granted =
                            IF sent[1].status = 200 /\ r.status = 200
                                  /\ BodyHolds(r.body, "user", "token")
                            THEN Append(local.granted,
                                    [token |-> JSONParse(r.body).val.props.user.props.token.str,
                                     userData |-> local.userData])
                            ELSE local.granted,
                         !.trail = Trail(local.trail, "login")]
    /\ UNCHANGED <<script, clock, data, iterationCount, probe>>

\* the end of a turn of the loop: its sleep, in the scripts that have one,
\* then i++ and the loop test
SetupTurn ==
    /\ pc = "setup_turn"
    /\ clock' = clock + provisioning[script].pause
    /\ pc' = SetupLoop(script, local.i + 1, local.users)
    /\ local' = [local EXCEPT
                   !.trail = IF provisioning[script].pause > 0
                             THEN Trail(local.trail, "sleep") ELSE local.trail,
                   !.i = local.i + 1]
    /\ sent' = <<>>
    /\ recorded' = <<>>
    /\ UNCHANGED <<script, data, iterationCount, probe>>

\* volume script: three createArticle calls for each of the first five users,
\* each followed by sleep(0.3); setup does not look at the responses, and the
\* log keeps the requests
SetupContent ==
    /\ pc = "setup_content"
    /\ LET n == IF Len(local.users) < 5 THEN Len(local.users) ELSE 5 IN
       sent' = [k \in 1 .. 3 * n |->
                    CreateArticleRequest(local.users[((k - 1) \div 3) + 1].token)]
    /\ recorded' = <<>>
    /\ clock' = clock + 300 * Len(sent')
    /\ pc' = "setup_return"
    /\ local' = [local EXCEPT !.trail = Trail(local.trail, "create")]
    /\ UNCHANGED <<script, data, iterationCount, probe>>

\* the value setup() returns
SetupReturn ==
    /\ pc = "setup_return"
    /\ pc' = "setup_done"
    /\ data' = [token |-> IF script = "load" /\ Len(local.users) > 0
                          THEN local.users[1].token ELSE "",
                users |-> IF script = "load" THEN <<>> ELSE local.users,
                startTime |-> 0]
    /\ UNCHANGED <<script, clock, iterationCount, local, sent, recorded, probe>>

NextSetup == SetupRegister \/ SetupLogin \/ SetupTurn \/ SetupContent \/ SetupReturn

SpecSetup == InitSetup /\ [][NextSetup]_vars

\* ============================================================ test-runner.ts
\* the keys of testConfigs, in declaration order
testConfigs == <<"load", "stress", "spike", "volume", "soak", "api">>

\* the runtime starts with the setup() of the script it was given
InitRunner ==
    \/ InitSetup
    \/ /\ script = "runner"
       /\ pc = "runner_setup"
       /\ clock = 0
       /\ data = NoData
       /\ iterationCount = 0
       /\ local = [printed |-> 0]
       /\ sent = <<>>
       /\ recorded = <<>>
       /\ probe = NoProbe

\* a setup() that prints the information and returns {}
RunnerSetupReturning ==
    /\ script = "runner"
    /\ pc = "runner_setup"
    /\ local' = [printed |-> 5 + 6 * Len(testConfigs) + 20]
    /\ pc' = "setup_done"
    /\ UNCHANGED <<script, clock, data, iterationCount, sent, recorded, probe>>

\* setup() of the runner: 5 lines of heading, 6 lines for each entry of
\* testConfigs, 20 lines of advice, then exec.test.abort(...), which ends the
\* run before setup returns
RunnerSetup ==
    /\ script = "runner"
    /\ pc = "runner_setup"
    /\ local' = [printed |-> 5 + 6 * Len(testConfigs) + 20]
    /\ pc' = "run_aborted"
    /\ UNCHANGED <<script, clock, data, iterationCount, sent, recorded, probe>>

\* once setup has returned, the runtime lets a virtual user call the default
\* function with the setup data
StartIterations ==
    /\ pc = "setup_done"
    /\ pc' = "start"
    /\ UNCHANGED <<script, clock, data, iterationCount, local, sent, recorded, probe>>

NextRunner == NextSetup \/ RunnerSetup \/ StartIterations

SpecRunner == InitRunner /\ [][NextRunner]_vars

\* ============================================== a run of any of the scripts
\* the runtime executes one script: after its setup, a virtual user calls
\* the default function of that script over and over
InitRun == InitApi \/ InitLoad \/ InitStress \/ InitSpike \/ InitVolume \/ InitSoak

NextRun == NextApi \/ NextLoad \/ NextStress \/ NextSpike \/ NextVolume \/ NextSoak

SpecRun == InitRun /\ [][NextRun]_vars

\* ------------------------------------------------------ soak script claims
\* C1: selectSoakBehavior follows the phase table: before minute 5 it gives
\* steady_browsing for a draw below 0.7 and mixed_load otherwise; from minute
\* 5 and before minute 35 it gives steady_browsing below 0.4,
\* authenticated_session in [0.4,0.7) and mixed_load otherwise; from minute 35
\* on it gives steady_browsing.
C1_SoakPhaseTable ==
    (script = "soak" /\ pc \notin {"start", "pair", "selected"}) =>
        LET e == local.elapsed
            u == local.draw * 10
            b == local.soakBehavior
        IN /\ e < 5 * MsPerMinute =>
                 /\ u < 7 * DrawScale => b = "steady_browsing"
                 /\ u >= 7 * DrawScale => b = "mixed_load"
           /\ (5 * MsPerMinute <= e /\ e < 35 * MsPerMinute) =>
                 /\ u < 4 * DrawScale => b = "steady_browsing"
                 /\ (4 * DrawScale <= u /\ u < 7 * DrawScale) => b = "authenticated_session"
                 /\ u >= 7 * DrawScale => b = "mixed_load"
           /\ e >= 35 * MsPerMinute => b = "steady_browsing"

\* an iteration starting in the first clock step from minute 5 on selected
\* authenticated_session
C1_Witness ==
    /\ script = "soak"
    /\ pc = "session_profile"
    /\ 5 * MsPerMinute <= local.elapsed
    /\ local.elapsed < 5 * MsPerMinute + TickMs
    /\ local.soakBehavior = "authenticated_session"

\* C2: two iterations with the same elapsed time and the same draw select the
\* same behaviour whatever their iteration counters are.
C2_SelectionIgnoresIterationCount ==
    (/\ script = "soak"
     /\ pc = "selected"
     /\ probe.first.now - data.startTime = probe.second.now - data.startTime
     /\ probe.first.draw = probe.second.draw)
        => probe.firstBehavior = probe.secondBehavior

C2_Witness ==
    /\ script = "soak"
    /\ pc = "selected"
    /\ probe.first.now = probe.second.now
    /\ probe.first.draw = probe.second.draw
    /\ probe.first.count # probe.second.count
    /\ probe.firstBehavior = "authenticated_session"
    /\ probe.secondBehavior = "authenticated_session"

\* ------------------------------------------------------ load script claims
\* C4 as stated: a draw below 0.6 browses articles, a draw in [0.6,0.8)
\* browses articles and tags, a draw of 0.8 or more performs authenticated
\* user actions.
C4_LoadMixAsStated ==
    (script = "load" /\ pc # "start") =>
        /\ local.draw * 10 < 6 * DrawScale => local.scenario = "browseArticles"
        /\ (6 * DrawScale <= local.draw * 10 /\ local.draw * 10 < 8 * DrawScale)
              => local.scenario = "browseArticlesAndTags"
        /\ 8 * DrawScale <= local.draw * 10
              => local.scenario = "authenticatedUserActions"

\* C4 amended: a draw below 0.6 browses articles, a draw in [0.6,0.8) browses
\* articles and tags, a draw of 0.8 or more performs authenticated user
\* actions when setup returned a token and browses articles when it did not.
C4_LoadMixWithFallback ==
    (script = "load" /\ pc # "start") =>
        /\ local.draw * 10 < 6 * DrawScale => local.scenario = "browseArticles"
        /\ (6 * DrawScale <= local.draw * 10 /\ local.draw * 10 < 8 * DrawScale)
              => local.scenario = "browseArticlesAndTags"
        /\ (8 * DrawScale <= local.draw * 10 /\ data.token # "")
              => local.scenario = "authenticatedUserActions"
        /\ (8 * DrawScale <= local.draw * 10 /\ data.token = "")
              => local.scenario = "browseArticles"
        /\ Len(sent) >= 1 =>
              IF local.scenario = "browseArticlesAndTags"
              THEN sent[1] = Answered(FetchTagsRequest, sent[1])
              ELSE sent[1] = Answered(FetchArticlesRequest(10, 0), sent[1])
        /\ (pc = "think" /\ local.scenario = "authenticatedUserActions")
              => sent[Len(sent)] = Answered(ProfileRequest(data.token), sent[Len(sent)])
        /\ (pc = "think" /\ local.scenario # "authenticatedUserActions")
              => \A i \in 1 .. Len(sent) : sent[i].auth = ""

\* a draw of 0.8 or more with no token has browsed articles without any
\* authenticated request
C4_Witness ==
    /\ script = "load"
    /\ pc = "think"
    /\ 8 * DrawScale <= local.draw * 10
    /\ data.token = ""
    /\ local.scenario = "browseArticles"
    /\ Len(sent) >= 1

\* ----------------------------------------------------- spike script claims
\* C8: in aggressiveBrowsing, quickHitAndRun (duration under 5 s) and
\* heavyResourceConsumption the check on a response passes for status 429 and
\* fails for a status of 500 or more and for status 0.
C8_SpikeClassification ==
    script = "spike" =>
        \A i \in 1 .. Len(recorded) :
            Len(recorded[i].subject) = 1 =>
                LET r == recorded[i].subject[1] IN
                /\ (r.status = 429 /\ r.duration < 5000) => recorded[i].pass
                /\ r.status >= 500 => ~recorded[i].pass
                /\ r.status = StatusNone => ~recorded[i].pass

\* one heavy batch saw a 429, a 500 and a missing response
C8_Witness ==
    /\ script = "spike"
    /\ pc = "think"
    /\ local.scenario = "heavyResourceConsumption"
    /\ \E i, j, k \in 1 .. Len(recorded) :
          /\ Len(recorded[i].subject) = 1 /\ recorded[i].subject[1].status = 429
          /\ recorded[i].pass
          /\ Len(recorded[j].subject) = 1 /\ recorded[j].subject[1].status = 500
          /\ ~recorded[j].pass
          /\ Len(recorded[k].subject) = 1 /\ recorded[k].subject[1].status = StatusNone
          /\ ~recorded[k].pass

\* ---------------------------------------------------- volume script claims
ExtensiveRunning ==
    script = "volume" /\ pc # "start" /\ local.scenario = "extensiveBrowsingSimulation"

\* C10: an extensive-browse session picks N pages with 3 <= N <= 10 and
\* fetches pages of size 20 at offsets 0, 20, 40, ... in increasing order; no
\* fetch follows a response whose status is not 200, and a finished session
\* has issued at least 1 and at most N fetches.
C10_ExtensiveBrowseBounded ==
    ExtensiveRunning =>
        /\ 3 <= local.n /\ local.n <= 10
        /\ Len(sent) <= local.n
        /\ \A i \in 1 .. Len(sent) :
              /\ sent[i] = Answered(FetchArticlesRequest(20, 20 * (i - 1)), sent[i])
              /\ i < Len(sent) => sent[i].status = 200
        /\ pc = "ext_page"
              => (Len(sent) < local.n /\ \A i \in 1 .. Len(sent) : sent[i].status = 200)
        /\ pc = "think"
              => /\ Len(sent) >= 1
                 /\ Len(sent) = local.n \/ sent[Len(sent)].status # 200
        /\ pc \in {"ext_page", "think"}

\* a session of N pages ended at its third page on a non-200 response
C10_Witness ==
    /\ ExtensiveRunning
    /\ pc = "think"
    /\ Len(sent) = 3
    /\ Len(sent) < local.n
    /\ sent[3].status # 200
    /\ sent[3].query = <<20, 40>>

\* ------------------------------------------------------- API script claims
IsRegister(q) == q.method = "POST" /\ q.url = config.baseUrl \o config.endpoints.register
IsLogin(q) == q.method = "POST" /\ q.url = config.baseUrl \o config.endpoints.login
IsArticleList(q) == q.method = "GET" /\ q.url = config.baseUrl \o config.endpoints.articles

ApiRunning(scenario) ==
    script = "api" /\ pc # "start" /\ local.scenario = scenario

\* C3: in the API script a draw in [0,0.3) runs the public-API test, a draw
\* in [0.3,0.6) the authentication-flow test and a draw in [0.6,1) the
\* complete-user-workflow test; 0.3 and 0.6 belong to the upper interval.
C3_ApiPartition ==
    (script = "api" /\ pc # "start") =>
        /\ local.draw * 10 < 3 * DrawScale
              => local.scenario = "testPublicAPIs"
        /\ (3 * DrawScale <= local.draw * 10 /\ local.draw * 10 < 6 * DrawScale)
              => local.scenario = "testAuthenticationFlow"
        /\ 6 * DrawScale <= local.draw * 10
              => local.scenario = "testCompleteUserWorkflow"
        /\ local.scenario = "testPublicAPIs"
              => pc \in {"pub_articles", "pub_page", "pub_limit", "pub_tags", "think"}
        /\ local.scenario = "testAuthenticationFlow"
              => pc \in {"auth_register", "auth_login", "auth_profile", "think"}
        /\ local.scenario = "testCompleteUserWorkflow"
              => pc \in {"wf_register", "wf_login", "wf_profile", "wf_articles",
                         "wf_create", "wf_favorite", "think"}
        /\ Len(sent) >= 1 =>
              IF local.scenario = "testPublicAPIs" THEN IsArticleList(sent[1])
              ELSE IsRegister(sent[1])

\* the first draw at or above the cut 0.3 has started the authentication flow
C3_Witness ==
    /\ script = "api"
    /\ pc = "auth_login"
    /\ 3 * DrawScale <= local.draw * 10
    /\ local.draw * 10 < 3 * DrawScale + 10
    /\ IsRegister(sent[1])

\* C7: in the complete user workflow login is attempted only after a
\* registration that returned 200; when registration did not return 200 or
\* login returned null no dependent request is issued, and the iteration goes
\* on to its think-time pause without raising.
C7_WorkflowSkipsDependents ==
    ApiRunning("testCompleteUserWorkflow") =>
        /\ pc # "aborted"
        /\ \A i \in 1 .. Len(sent) :
              /\ IsLogin(sent[i]) => (i = 2 /\ IsRegister(sent[1]) /\ sent[1].status = 200)
              /\ (~IsRegister(sent[i]) /\ ~IsLogin(sent[i]))
                    => (sent[1].status = 200 /\ local.login = "object")
        /\ (Len(sent) >= 1 /\ sent[1].status # 200) => (pc = "think" /\ Len(sent) = 1)
        /\ local.login = "null" => (pc = "think" /\ Len(sent) = 2)

C7_Witness ==
    /\ ApiRunning("testCompleteUserWorkflow")
    /\ pc = "think"
    /\ Len(sent) = 2
    /\ sent[1].status = 200
    /\ IsLogin(sent[2])
    /\ local.login = "null"

\* ------------------------------------------------------------ helper claims
UtilCalled(fn) == script = "utils" /\ probe.called /\ probe.fn = fn

\* C5: loginUser returns a non-null parsed object exactly when the response
\* has status 200 and a JSON body with a user object holding a non-empty
\* token; in every other case it returns null, and it never throws.
C5_LoginNonNullIffTokenAnd200 ==
    UtilCalled("loginUser") =>
        /\ ~probe.result.threw
        /\ (probe.result.value.kind # "null")
              <=> (probe.response.status = 200
                   /\ BodyHolds(probe.response.body, "user", "token"))
        /\ probe.result.value.kind # "null"
              => probe.result.value = JSONParse(probe.response.body).val

C5_Witness ==
    /\ UtilCalled("loginUser")
    /\ probe.response.status = 200
    /\ probe.result.value.kind = "object"
    /\ probe.result.value.props.user.props.token.str = "jwt1"

\* C6: registerUser, fetchArticles, fetchTags and createArticle never raise,
\* whatever the status and body of the response: both checks are recorded as
\* booleans and the result carries the status of the response.
C6_HelpersNeverRaise ==
    \A fn \in {"registerUser", "fetchArticles", "fetchTags", "createArticle"} :
        UtilCalled(fn) =>
            /\ ~probe.result.threw
            /\ Len(probe.result.checks) = 2
            /\ \A i \in 1 .. 2 : probe.result.checks[i].pass \in BOOLEAN
            /\ probe.result.status = probe.response.status
            /\ probe.result.body = probe.response.body

C6_Witness ==
    /\ UtilCalled("fetchArticles")
    /\ probe.response.status = StatusNone
    /\ probe.response.body = Body.html
    /\ probe.result.status = StatusNone
    /\ ~probe.result.checks[1].pass
    /\ ~probe.result.checks[2].pass

\* C9: createArticle records its status assertion as passed for status 200
\* and for status 201, and its slug assertion as passed exactly when the body
\* parses and its article object has a slug.
C9_CreateArticleAccepts200And201 ==
    UtilCalled("createArticle") =>
        /\ probe.result.checks[1].name = "Article created successfully"
        /\ probe.result.checks[1].pass <=> probe.response.status \in {200, 201}
        /\ probe.result.checks[2].pass
              <=> BodyHolds(probe.response.body, "article", "slug")

\* ------------------------------------------------- volume script, continued
PaginationRunning ==
    script = "volume" /\ pc # "start" /\ local.scenario = "largePaginationTesting"

\* C11: a pagination sweep issues exactly one article fetch, whose limit is
\* one of 10, 20, 50 and whose offset is one of 0, 50, 100, 200, 500, 1000;
\* for every draw the index computed from it lies inside the candidate array.
C11_PaginationSweep ==
    /\ \A d \in Draws :
          /\ RandFloor(d, Len(pageSizes)) \in 0 .. (Len(pageSizes) - 1)
          /\ RandFloor(d, Len(offsets)) \in 0 .. (Len(offsets) - 1)
    /\ PaginationRunning =>
          /\ local.pageSize \in {10, 20, 50}
          /\ local.offset \in {0, 50, 100, 200, 500, 1000}
          /\ pc \in {"page_fetch", "page_tags", "think"}
          /\ pc = "page_fetch" => sent = <<>>
          /\ pc \in {"page_tags", "think"} =>
                /\ Len(sent) >= 1
                /\ sent[1] = Answered(FetchArticlesRequest(local.pageSize, local.offset), sent[1])
                /\ \A i \in 2 .. Len(sent) : ~IsArticleList(sent[i])
          /\ \A i \in 1 .. Len(sent) :
                IsArticleList(sent[i]) =>
                    /\ sent[i].query[1] \in {10, 20, 50}
                    /\ sent[i].query[2] \in {0, 50, 100, 200, 500, 1000}

\* the last candidates of both arrays were chosen by the largest draws and
\* the sweep has ended after its one fetch
C11_Witness ==
    /\ PaginationRunning
    /\ pc = "think"
    /\ Len(sent) = 1
    /\ sent[1].query = <<50, 1000>>

BulkRunning ==
    script = "volume" /\ pc # "start" /\ local.scenario = "authenticatedBulkOperations"

IsCreate(q) == q.method = "POST" /\ q.url = config.baseUrl \o config.endpoints.articles

\* C12: authenticated bulk operations fetch the profile first, then the
\* articles at offsets 0, 20, 40, 60, 80 in that order, requesting no later
\* offset after a response whose status is not 200, and create at most one
\* article, only once the sweep has ended.
C12_BulkOrder ==
    BulkRunning =>
        /\ pc \in {"bulk_profile", "bulk_articles", "bulk_create", "think"}
        /\ pc = "bulk_profile" <=> sent = <<>>
        /\ Len(sent) >= 1 => sent[1] = Answered(ProfileRequest(local.token), sent[1])
        /\ Len(sent) <= 7
        /\ \A i \in 2 .. Len(sent) :
              \/ /\ i <= 6
                 /\ sent[i] = Answered(Request("GET", config.endpoints.articles,
                                               <<20, 20 * (i - 2)>>,
                                               createAuthHeader(local.token)), sent[i])
                 /\ i > 2 => sent[i - 1].status = 200
              \/ /\ IsCreate(sent[i])
                 /\ i = Len(sent)
                 /\ i >= 3
                 /\ pc = "think"
                 /\ IsArticleList(sent[i - 1])
                 /\ sent[i - 1].status # 200 \/ i - 1 = 6
        /\ pc = "bulk_articles" =>
              (Len(sent) <= 5 /\ \A i \in 2 .. Len(sent) : sent[i].status = 200)
        /\ pc = "bulk_create" =>
              /\ IsArticleList(sent[Len(sent)])
              /\ sent[Len(sent)].status # 200 \/ Len(sent) = 6

\* the sweep stopped at offset 20 on a response that was not 200 and the
\* article was created after it
C12_Witness ==
    /\ BulkRunning
    /\ pc = "think"
    /\ Len(sent) = 4
    /\ sent[2].query = <<20, 0>> /\ sent[2].status = 200
    /\ sent[3].query = <<20, 20>> /\ sent[3].status # 200
    /\ IsCreate(sent[4])

\* --------------------------------------------------- load script, continued
\* C13: no iteration of the load script issues a POST request, whatever the
\* draws and whether or not setup returned a token: every request is a GET of
\* the article list, the tag list or the profile, and the authenticated
\* actions end after the profile request.
C13_LoadNeverPosts ==
    script = "load" =>
        /\ \A i \in 1 .. Len(sent) :
              /\ sent[i].method = "GET"
              /\ sent[i].url \in {config.baseUrl \o config.endpoints.articles,
                                  config.baseUrl \o config.endpoints.tags,
                                  config.baseUrl \o config.endpoints.profile}
              /\ sent[i].url = config.baseUrl \o config.endpoints.profile
                    => (i = Len(sent) /\ pc = "think")
        /\ Len(sent) <= 4

\* authenticated user actions have run to their end: two article pages and
\* the profile request
C13_Witness ==
    /\ script = "load"
    /\ pc = "think"
    /\ local.scenario = "authenticatedUserActions"
    /\ data.token # ""
    /\ Len(sent) = 3
    /\ sent[3] = Answered(ProfileRequest(data.token), sent[3])

\* ------------------------------------------------ claims about every script
\* setup provisioned no authenticated user
NoUserProvisioned ==
    \/ script = "load" /\ data.token = ""
    \/ script \in {"stress", "volume", "soak"} /\ data.users = <<>>

\* C14: when setup provisioned no authenticated user, an iteration whose draw
\* selects the authenticated branch runs the unauthenticated fallback
\* scenario up to the think-time pause, no request carries an Authorization
\* header and no iteration is ended by an exception.
C14_DegradedRunCompletes ==
    NoUserProvisioned =>
        /\ pc # "aborted"
        /\ \A i \in 1 .. Len(sent) : sent[i].auth = ""
        /\ pc # "start" =>
              /\ script # "load" => local.token = ""
              /\ (script = "load" /\ 8 * DrawScale <= local.draw * 10) =>
                    /\ local.scenario = "browseArticles"
                    /\ pc \in {"browse_first", "browse_more", "think"}
              /\ (script = "stress" /\ 7 * DrawScale <= local.draw * 10) =>
                    /\ local.scenario = "rapidArticleBrowsing"
                    /\ pc \in {"rapid", "think"}
              /\ (script = "volume" /\ 7 * DrawScale <= local.draw * 10) =>
                    /\ local.scenario = "largePaginationTesting"
                    /\ pc \in {"page_fetch", "page_tags", "think"}
              /\ (script = "soak" /\ local.soakBehavior = "authenticated_session") =>
                    /\ local.scenario = "steadyBrowsing"
                    /\ pc \in {"steady_articles", "steady_tags", "think"}

\* a soak iteration that selected authenticated_session with no user
\* provisioned has finished steady browsing
C14_Witness ==
    /\ NoUserProvisioned
    /\ script = "soak"
    /\ pc = "think"
    /\ local.soakBehavior = "authenticated_session"
    /\ local.scenario = "steadyBrowsing"
    /\ Len(sent) >= 1


\* C15: at every point of setup the user list holds exactly the credentials
\* whose registration was answered with 200 and whose login gave a result,
\* each with the non-empty token of that login and the credential that
\* obtained it; the list is never longer than the provisioning count of the
\* script (5 stress, 10 volume, 3 soak), and the list setup returns is that
\* list
C15_SetupUsersAreGranted ==
    /\ local.users = local.granted
    /\ \A k \in 1 .. Len(local.users) : local.users[k].token # ""
    /\ Len(local.users) <= local.i + 1
    /\ script = "stress" => Len(local.users) <= 5
    /\ script = "volume" => Len(local.users) <= 10
    /\ script = "soak" => Len(local.users) <= 3
    /\ (pc = "setup_done" /\ script # "load") => data.users = local.granted

\* a setup that returned a list with some, but not all, of the credentials
\* it tried
C15_Witness ==
    /\ pc = "setup_done"
    /\ script \in {"stress", "volume", "soak"}
    /\ Len(data.users) > 1
    /\ Len(data.users) < provisioning[script].count


\* C16: in the scripts whose setup provisions several users (stress, volume,
\* soak) a registration request that follows an earlier provisioning attempt
\* comes directly after a pause
C16_PauseBetweenProvisioning ==
    (/\ script \in {"stress", "volume", "soak"}
     /\ Len(local.trail) = 2
     /\ local.trail[2] = "register")
        => local.trail[1] = "sleep"


\* the requests sent so far in this iteration are the first ones of the list
\* of targets, in order, each sent once; the loop variable counts them, and
\* the scenario ends when the whole list has been sent
FixedSequence(targets, looping) ==
    /\ Len(sent) <= Len(targets)
    /\ \A k \in 1 .. Len(sent) :
          /\ sent[k].method = "GET"
          /\ sent[k].url = targets[k][1]
          /\ sent[k].query = targets[k][2]
    /\ pc \in {looping, "think"}
    /\ local.i = Len(sent)
    /\ pc = "think" <=> Len(sent) = Len(targets)

\* C17: whatever the responses, rapidArticleBrowsing sends exactly the three
\* article fetches with limit 10 at offsets 0, 10, 20 and aggressiveBrowsing
\* sends exactly its four GET requests in list order; no request is sent a
\* second time after a failed response
C17_NoRetry ==
    /\ (script = "stress" /\ local.scenario = "rapidArticleBrowsing") =>
          FixedSequence(<<<<"https://demo.realworld.show/api/articles", <<10, 0>>>>,
                          <<"https://demo.realworld.show/api/articles", <<10, 10>>>>,
                          <<"https://demo.realworld.show/api/articles", <<10, 20>>>>>>,
                        "rapid")
    /\ (script = "spike" /\ local.scenario = "aggressiveBrowsing") =>
          FixedSequence(<<<<"https://demo.realworld.show/api/articles", <<>>>>,
                          <<"https://demo.realworld.show/api/articles", <<20, 0>>>>,
                          <<"https://demo.realworld.show/api/tags", <<>>>>,
                          <<"https://demo.realworld.show/api/articles", <<10, 20>>>>>>,
                        "aggressive")

\* rapidArticleBrowsing has finished although no response was a 200
C17_Witness ==
    /\ script = "stress"
    /\ local.scenario = "rapidArticleBrowsing"
    /\ pc = "think"
    /\ Len(sent) = 3
    /\ \A k \in 1 .. 3 : sent[k].status # 200


\* C18: no step of any iteration of any script changes the data setup
\* returned: the user list (length, order, token and credential of every
\* entry), the token of the load script and the start time stay as they were
C18_SetupDataUnchanged == [][data' = data]_vars

\* the second iteration of the soak script has run an authenticated session
\* with a user of a two-user list, and the list and start time are in place
C18_Witness ==
    /\ script = "soak"
    /\ iterationCount >= 2
    /\ pc = "think"
    /\ local.scenario = "authenticatedSession"
    /\ Len(sent) > 0
    /\ data.users = <<ProvisionedUser(1), ProvisionedUser(2)>>
    /\ data.startTime = 0


\* C19: what an iteration does is determined by the configuration, the setup
\* data, the clock and its own draws: two iterations of the soak script that
\* start at the same clock reading with the same draw and the same setup
\* data select the same behaviour and use the same token, whatever the
\* earlier iterations left in iterationCount
C19_IterationReadsNoEarlierState ==
    (/\ script = "soak"
     /\ pc = "selected"
     /\ probe.first.now = probe.second.now
     /\ probe.first.draw = probe.second.draw)
        => /\ probe.firstBehavior = probe.secondBehavior
           /\ probe.firstToken = probe.secondToken


\* the tokens the setup data holds
SetupTokens ==
    {data.token} \cup {data.users[j].token : j \in 1 .. Len(data.users)}

\* C20: every request of an iteration that carries an Authorization header
\* carries "Token " and a non-empty token that is in the setup data or was
\* granted by a login answered earlier in the same iteration; in the workflow
\* of the API script the header of the profile, article list, creation and
\* favorite requests carries the token granted by the login that followed
\* the registration of that iteration
C20_AuthorizationTokenFromLogin ==
    /\ \A k \in 1 .. Len(sent) :
          sent[k].auth # "" =>
             \E t \in SetupTokens \cup {sent[j].granted : j \in 1 .. k - 1} :
                /\ t # ""
                /\ sent[k].auth = "Token " \o t
    /\ \A k \in 1 .. Len(sent) :
          (ApiRunning("testCompleteUserWorkflow") /\ sent[k].auth # "") =>
             /\ k > 2
             /\ IsRegister(sent[1]) /\ sent[1].status = 200
             /\ IsLogin(sent[2]) /\ sent[2].granted # ""
             /\ sent[k].auth = "Token " \o sent[2].granted

\* a workflow of the API script that went as far as favoriting the article
C20_Witness ==
    /\ ApiRunning("testCompleteUserWorkflow")
    /\ Len(sent) = 6
    /\ sent[6].method = "POST"
    /\ \A k \in 3 .. 6 : sent[k].auth = "Token " \o sent[2].granted


\* --------------------------------------------------- claims of the last part
\* C21: any two credentials generateRandomUserData returns in one run have
\* different usernames and different emails, also when both calls read the
\* same clock millisecond
C21_CredentialsUnique ==
    UtilCalled("generateRandomUserData") =>
        /\ Username(probe.firstData) # Username(probe.secondData)
        /\ Email(probe.firstData) # Email(probe.secondData)


\* C22: a run of the test-runner script ends in its setup: the default
\* function is never called for an iteration and no HTTP request is sent
C22_RunnerNeverIterates ==
    script = "runner" =>
        /\ pc \in {"runner_setup", "run_aborted"}
        /\ sent = <<>>

\* the runner has printed its 61 lines and aborted the run
C22_Witness ==
    /\ script = "runner"
    /\ pc = "run_aborted"
    /\ local.printed = 61


\* C23: in testAuthenticationFlow, when the registration was not answered
\* with 200 (so its checks did not all pass), the iteration sends no login
\* request and no token-validation request
C23_LoginSkippedAfterFailedRegistration ==
    (/\ ApiRunning("testAuthenticationFlow")
     /\ Len(sent) >= 1
     /\ IsRegister(sent[1])
     /\ sent[1].status # 200)
        => \A k \in 2 .. Len(sent) :
              /\ ~IsLogin(sent[k])
              /\ sent[k].auth = ""


\* the names of the status-acceptability checks of the spike scenarios
SpikeStatusChecks ==
    {"Aggressive browse " \o ToString(i) \o " - success or graceful failure" : i \in 1 .. 4}
        \cup {"Quick hit - not server error"}
        \cup {"Heavy load batch " \o ToString(i) \o " - acceptable status" : i \in 1 .. 4}

\* C24: in the spike scenarios a status-acceptability check on a response
\* with status 0 (no response) or with a status of 500 or more is recorded
\* as false
C24_NoResponseNeverAcceptable ==
    script = "spike" =>
        \A c \in 1 .. Len(recorded) :
            \A n \in 1 .. Len(recorded[c].named) :
                (/\ recorded[c].named[n].name \in SpikeStatusChecks
                 /\ \/ recorded[c].subject[1].status = StatusNone
                    \/ recorded[c].subject[1].status >= 500)
                    => ~recorded[c].named[n].pass


\* C25: in testCompleteUserWorkflow the favorite request is sent exactly when
\* the creation response has status 200 and a body whose article has a slug,
\* and it is a POST to the favorite path of that slug; a creation answered
\* with 201 and a slug passes the creation checks of the workflow and is not
\* followed by a favorite request
C25_FavoriteOnlyAfter200WithSlug ==
    (ApiRunning("testCompleteUserWorkflow") /\ Len(sent) >= 5) =>
        /\ IsCreate(sent[5])
        /\ (pc = "wf_favorite" \/ Len(sent) = 6)
              <=> (sent[5].status = 200 /\ sent[5].slug # "")
        /\ Len(sent) = 6 =>
              /\ sent[6].method = "POST"
              /\ sent[6].url = "https://demo.realworld.show/api/articles/"
                                   \o sent[5].slug \o "/favorite"
              /\ pc = "think"
        /\ (Len(sent) = 5 /\ sent[5].status = 201 /\ sent[5].slug # "") =>
              /\ recorded[2].pass
              /\ pc = "think"

\* the creation was answered with 201 and a slug: its checks passed and the
\* workflow has ended without a favorite request
C25_Witness ==
    /\ ApiRunning("testCompleteUserWorkflow")
    /\ Len(sent) = 5
    /\ sent[5].status = 201
    /\ sent[5].slug = "t-1"
    /\ recorded[2].pass
    /\ pc = "think"


\* C26: in authenticatedStressActions the check 'majority success' is
\* recorded as true exactly when at least 2 of the 3 batched responses had
\* status 200 or 201
C26_MajorityOfThree ==
    (script = "stress" /\ local.scenario = "authenticatedStressActions" /\ Len(sent) = 3)
        => (recorded[4].pass
               <=> Cardinality({i \in 1 .. 3 : sent[i].status \in {200, 201}}) >= 2)


\* C27: the check 'Extensive browsing session - completed successfully' is
\* recorded as passed only when the session fetched all the pages it had
\* planned and every one of them was answered with 200
C27_SessionCheckOnlyForCompleteSessions ==
    (/\ ExtensiveRunning
     /\ pc = "think"
     /\ recorded[Len(recorded)].named[1].name
           = "Extensive browsing session - completed successfully"
     /\ recorded[Len(recorded)].named[1].pass)
        => /\ Len(sent) = local.n
           /\ \A k \in 1 .. Len(sent) : sent[k].status = 200


\* the branches of the dispatcher of each script: the range [lo/10, hi/10) of
\* the draw and the scenario functions the branch can call (the last branch
\* of load, stress and volume has a fallback)
Dispatch ==
    [api |-> <<[lo |-> 0, hi |-> 3, fns |-> {"testPublicAPIs"}],
               [lo |-> 3, hi |-> 6, fns |-> {"testAuthenticationFlow"}],
               [lo |-> 6, hi |-> 10, fns |-> {"testCompleteUserWorkflow"}]>>,
     load |-> <<[lo |-> 0, hi |-> 6, fns |-> {"browseArticles"}],
                [lo |-> 6, hi |-> 8, fns |-> {"browseArticlesAndTags"}],
                [lo |-> 8, hi |-> 10, fns |-> {"authenticatedUserActions", "browseArticles"}]>>,
     stress |-> <<[lo |-> 0, hi |-> 4, fns |-> {"rapidArticleBrowsing"}],
                  [lo |-> 4, hi |-> 7, fns |-> {"mixedBrowsingStress"}],
                  [lo |-> 7, hi |-> 10,
                   fns |-> {"authenticatedStressActions", "rapidArticleBrowsing"}]>>,
     spike |-> <<[lo |-> 0, hi |-> 5, fns |-> {"aggressiveBrowsing"}],
                 [lo |-> 5, hi |-> 8, fns |-> {"quickHitAndRun"}],
                 [lo |-> 8, hi |-> 10, fns |-> {"heavyResourceConsumption"}]>>,
     volume |-> <<[lo |-> 0, hi |-> 4, fns |-> {"largePaginationTesting"}],
                  [lo |-> 4, hi |-> 7, fns |-> {"extensiveBrowsingSimulation"}],
                  [lo |-> 7, hi |-> 10,
                   fns |-> {"authenticatedBulkOperations", "largePaginationTesting"}]>>]

\* the cases of the switch of the soak script
SoakSwitch ==
    [steady_browsing |-> {"steadyBrowsing"},
     authenticated_session |-> {"authenticatedSession", "steadyBrowsing"},
     mixed_load |-> {"mixedLoadPattern"}]

\* the steps that belong to each scenario function
ScenarioSteps ==
    [testPublicAPIs |-> {"pub_articles", "pub_page", "pub_limit", "pub_tags"},
     testAuthenticationFlow |-> {"auth_register", "auth_login", "auth_profile"},
     testCompleteUserWorkflow |->
        {"wf_register", "wf_login", "wf_profile", "wf_articles", "wf_create", "wf_favorite"},
     browseArticles |-> {"browse_first", "browse_more"},
     browseArticlesAndTags |-> {"tags", "browse_first", "browse_more"},
     authenticatedUserActions |-> {"browse_first", "browse_more", "profile"},
     rapidArticleBrowsing |-> {"rapid"},
     mixedBrowsingStress |-> {"mixed_stress"},
     authenticatedStressActions |-> {"auth_stress"},
     aggressiveBrowsing |-> {"aggressive"},
     quickHitAndRun |-> {"quick_hit"},
     heavyResourceConsumption |-> {"heavy"},
     largePaginationTesting |-> {"page_fetch", "page_tags"},
     extensiveBrowsingSimulation |-> {"ext_page"},
     authenticatedBulkOperations |-> {"bulk_profile", "bulk_articles", "bulk_create"},
     steadyBrowsing |-> {"steady_articles", "steady_tags"},
     authenticatedSession |-> {"session_profile", "session_articles"},
     mixedLoadPattern |-> {"mixed_batch"}]

\* the branches whose range holds the draw u
BranchesOf(s, u) ==
    {b \in 1 .. Len(Dispatch[s]) :
        Dispatch[s][b].lo * DrawScale <= u * 10 /\ u * 10 < Dispatch[s][b].hi * DrawScale}

\* an iteration that has left the dispatcher runs the one scenario function
\* of the one branch (or switch case) its draw selects, or its think time
OneScenario ==
    pc # "start" =>
        /\ script \in DOMAIN Dispatch =>
              /\ Cardinality(BranchesOf(script, local.draw)) = 1
              /\ \A b \in BranchesOf(script, local.draw) :
                    local.scenario \in Dispatch[script][b].fns
        /\ script = "soak" =>
              /\ local.soakBehavior \in DOMAIN SoakSwitch
              /\ local.scenario \in SoakSwitch[local.soakBehavior]
        /\ local.scenario \in DOMAIN ScenarioSteps
        /\ pc \in ScenarioSteps[local.scenario] \cup {"think"}

\* C28: in every script each draw selects exactly one branch of the
\* dispatcher, the iteration runs only the scenario function of that branch,
\* and it ends with the think-time pause: the next iteration starts from the
\* pause and from nowhere else
C28_ExactlyOneScenario ==
    /\ []OneScenario
    /\ [][/\ (pc' = "start" /\ pc # "start") => pc = "think"
          /\ (pc = "think" /\ pc' # pc) => pc' = "start"]_vars

\* a spike iteration whose draw is the cut point 0.5 has run quickHitAndRun
\* and reached its pause
C28_Witness ==
    /\ script = "spike"
    /\ local.draw * 10 >= 5 * DrawScale
    /\ local.draw * 10 < 6 * DrawScale
    /\ local.scenario = "quickHitAndRun"
    /\ pc = "think"
    /\ Len(sent) = 1


\* C29: a soak iteration that starts less than 5 minutes after the start
\* time captured in setup never selects authenticated_session: it takes no
\* token from the provisioned users, however many there are, and none of its
\* requests carries an Authorization header
C29_NoAuthenticatedSessionBeforeMinute5 ==
    (/\ script = "soak"
     /\ pc \notin {"start", "pair", "selected"}
     /\ local.elapsed < 5 * MsPerMinute)
        => /\ local.soakBehavior \in {"steady_browsing", "mixed_load"}
           /\ local.scenario \in {"steadyBrowsing", "mixedLoadPattern"}
           /\ local.token = ""
           /\ \A k \in 1 .. Len(sent) : sent[k].auth = ""

\* with two users provisioned, an iteration that started after the first
\* clock step and before minute 5 drew 0.5 and has finished steady browsing
C29_Witness ==
    /\ script = "soak"
    /\ Len(data.users) = 2
    /\ pc = "think"
    /\ 0 < local.elapsed
    /\ local.elapsed < 5 * MsPerMinute
    /\ 4 * DrawScale <= local.draw * 10
    /\ local.draw * 10 < 7 * DrawScale
    /\ local.scenario = "steadyBrowsing"
    /\ Len(sent) >= 1


\* the most requests one iteration of each script sends
MaxRequests ==
    [load |-> 3, stress |-> 3, spike |-> 4, volume |-> 10, soak |-> 2, api |-> 6]

\* C30: whatever the responses and the draws, an iteration sends at most 3
\* requests in the load script, 3 in the stress script, 4 in the spike script,
\* 10 in the volume script, 2 in the soak script and 6 in the API script, and
\* it terminates: every step of a scenario sends at least one request, so the
\* bound leaves the scenario only finitely many steps before its pause
C30_BoundedRequests ==
    /\ [](Len(sent) <= MaxRequests[script])
    /\ [][pc \notin {"start", "think"} => Len(sent') > Len(sent)]_vars

\* an extensive browsing session of the volume script has fetched its ten
\* pages and reached its pause
C30_Witness ==
    /\ script = "volume"
    /\ local.scenario = "extensiveBrowsingSimulation"
    /\ local.n = 10
    /\ Len(sent) = 10
    /\ pc = "think"

====
